---- MODULE Spec2Model ----
(***************************************************************************)
(* Model of the web messaging surface of the relay: the connection         *)
(* supervisor (monitorWebProvider), the inbound message handler (echo      *)
(* guard, mention gating, group history) and the reply delivery engine     *)
(* (deliverWebReply), translated from src/src/web/auto-reply.ts.           *)
(*                                                                         *)
(* Time is Date.now() in milliseconds.  Texts are sequences of characters  *)
(* in the delivery engine and sequences of words in the message handler.   *)
(***************************************************************************)
EXTENDS Integers, Sequences, FiniteSets, TLC

(***************************************************************************)
(* Bounds of the model.                                                    *)
(***************************************************************************)
\* number of clock advances explored
MaxTicks == 1
\* number of listener-factory invocations explored
MaxConnections == 3
\* largest maxAttempts of a reconnect policy
MaxPolicyAttempts == 2
\* inbound messages handled per connection, supervisor specification
MaxSupMessages == 1
\* largest attempt number the backoff function is evaluated at
MaxBackoffAttempt == 5
\* inbound messages handled, message-handler specification
MaxMessages == 2
\* inbound messages handled, echo-guard specification
MaxEchoMessages == 4
\* inbound messages handled, group-history specification
MaxHistoryMessages == 4
\* turns (processMessage calls awaiting the resolver) in flight at once
MaxInFlight == 1
MaxReplyMessages == 2
MaxFullMessages == 2

(***************************************************************************)
(* Program constants.                                                      *)
(***************************************************************************)
WEB_TEXT_LIMIT == 4000
DEFAULT_GROUP_HISTORY_LIMIT == 50
MAX_RECENT_MESSAGES == 100
MESSAGE_TIMEOUT_MS == 1800000
WATCHDOG_CHECK_MS == 60000
\* status code of the watchdog's signalClose reason
WatchdogStatus == 499
\* status code substituted when listener.onClose rejects
RejectedStatus == 500
\* a time or a status code that is null / undefined
NoTime == -1
NoStatus == -1

Min(a, b) == IF a <= b THEN a ELSE b

RECURSIVE Pow(_, _)
Pow(b, e) == IF e <= 0 THEN 1 ELSE b * Pow(b, e - 1)

VARIABLES
  now,               \* Date.now()
  cfg,               \* configuration and tuning of this monitor run
  aborted,           \* abortSignal.aborted
  pc,                \* position of monitorWebProvider
  afterClose,        \* what follows the pending `await closeListener()`
  reconnectAttempts,
  sigintStop,
  sigintRegistered,  \* handleSigint is registered on the process
  factoryCalls,      \* invocations of listenerFactory
  startedAt,
  lastMessageAt,
  handledMessages,
  watchdogTimer,     \* the heartbeat and watchdog intervals are running
  activeListener,    \* the slot of setActiveWebListener: a listener id or 0
  closeCalls,        \* closeCalls[i]: calls of close() of the i-th listener
  onCloseSettled,    \* onClose of the current listener has resolved
  raceResult,        \* value the close race resolved with
  status,            \* WebProviderStatus, delivered to the sink by emitStatus
  delay,             \* last computeBackoff call: its attempt and its result
  ticks,             \* clock advances so far
  runtimeErrors,     \* kinds of the messages passed to runtime.error
  chatCfg,           \* loadConfig() and the session store, as the handler reads them
  recentlySent,      \* the echo set, in insertion order
  groupHistories,    \* conversation id -> buffered entries
  turns,             \* processMessage calls awaiting the reply resolver
  lastInbound,       \* _lastInboundMsg
  outcome,           \* where onMessage left off for lastInbound
  arrivals,          \* conversation id -> entries appended since its last clear
  shown,             \* conversation id -> per buffered entry: a resolver call got it
  outbound,          \* deliverWebReply calls of the latest turn, in call order
  settled,           \* how the latest processMessage call settled, and on what
  dpc,               \* position of deliverWebReply
  replyResult,       \* the payload being delivered
  textChunks,
  remainingText,
  dIndex,            \* index of the running loop, from 1
  dAttempt,          \* attempt of sendWithRetry
  caption,           \* caption of the current media item; <<>> is undefined
  mediaKind,         \* media.kind of the loaded item
  wire,              \* the sends that resolved, in order
  retryLog,          \* the attempts of sendWithRetry in this delivery, in order
  discord,           \* one sendMessageDiscord call: its locals and its posts
  drain,             \* one connection's background tasks and its closeListener call
  slot,              \* the active-listener slot shared by two monitor loops
  hb                 \* one runWebHeartbeatOnce call, the session entry and the clock

supVars == <<now, cfg, aborted, pc, afterClose, reconnectAttempts, sigintStop,
             sigintRegistered, factoryCalls, startedAt, lastMessageAt,
             handledMessages, watchdogTimer, activeListener, closeCalls,
             onCloseSettled, raceResult, status, delay, ticks,
             runtimeErrors>>

msgVars == <<chatCfg, recentlySent, groupHistories, turns, lastInbound,
             outcome, arrivals, shown, outbound, settled>>

dlvVars == <<dpc, replyResult, textChunks, remainingText, dIndex, dAttempt,
             caption, mediaKind, wire, retryLog>>

vars == <<supVars, msgVars, dlvVars, discord, drain, slot, hb>>

(***************************************************************************)
(* Reconnect policy and backoff (web/reconnect.js).                        *)
(***************************************************************************)
\* factor is the rational factorNum / factorDen
PolicyShapes ==
  { [initialMs |-> 5, maxMs |-> 5, factorNum |-> 11, factorDen |-> 10],
    [initialMs |-> 1000, maxMs |-> 3000, factorNum |-> 9, factorDen |-> 5] }

Policies ==
  { [initialMs |-> s.initialMs, maxMs |-> s.maxMs, factorNum |-> s.factorNum,
     factorDen |-> s.factorDen, maxAttempts |-> m] :
       s \in PolicyShapes, m \in 0..MaxPolicyAttempts }

\* delay = min(maxMs, initialMs * factor^(attempt-1))
computeBackoff(policy, attempt) ==
  Min(policy.maxMs,
      (policy.initialMs * Pow(policy.factorNum, attempt - 1))
         \div Pow(policy.factorDen, attempt - 1))

(***************************************************************************)
(* Texts, identities and configuration of the message handler.  A text is  *)
(* a sequence of words; the empty sequence is the empty (or absent) text.  *)
(***************************************************************************)
SILENT_REPLY_TOKEN == "NO_REPLY"
HEARTBEAT_TOKEN == "HEARTBEAT_OK"

Contains(seq, x) == \E i \in 1..Len(seq) : seq[i] = x

Remove(seq, x) == SelectSeq(seq, LAMBDA y : y # x)

\* Set.add keeps the insertion position of an element already present
SetAdd(seq, x) == IF Contains(seq, x) THEN seq ELSE Append(seq, x)

RECURSIVE Flatten(_)
Flatten(seqs) == IF seqs = <<>> THEN <<>> ELSE Head(seqs) \o Flatten(Tail(seqs))

SelfE164 == "+999"
SelfJid == "999@s.whatsapp.net"
Group1 == "123@g.us"
Group2 == "456@g.us"
Groups == {Group1, Group2}

\* utils.normalizeE164 on the addresses that occur
normalizeE164(x) ==
  CASE x \in {"+111", "111", "whatsapp:+111"} -> "+111"
    [] x \in {"+222", "222"} -> "+222"
    [] x \in {"+999", "999"} -> "+999"
    [] OTHER -> ""

\* utils.jidToE164 on the JIDs that occur; "" is null
jidToE164(jid) == IF jid = SelfJid THEN SelfE164 ELSE ""

\* the digits of a word: text.replace(/\D/g, "")
Digits(word) == IF word \in {"+999", "999"} THEN "999" ELSE ""

\* the zero-width and directionality markers that clean() removes
ZeroWidth == "\\u200e"

\* words that a configured mention pattern matches: /@clawd/i
PatternWords(pattern) == IF pattern = "@clawd" THEN {"@clawd", "@Clawd"} ELSE {}

NoLimit == -1

\* cfg.whatsapp.allowFrom, cfg.routing.groupChat, cfg.whatsapp.groups (by
\* group id and "*"), cfg.messages, and the groupActivation of the session
\* store entry of Group1
ChatConfigs ==
  { [allowFrom |-> <<>>, mentionPatterns |-> <<"@clawd">>,
     groupRequire |-> "unset", wildcardRequire |-> "unset",
     storeActivation |-> "unset", historyLimit |-> NoLimit,
     responsePrefix |-> <<>>],
    [allowFrom |-> <<"*">>, mentionPatterns |-> <<"@clawd">>,
     groupRequire |-> "unset", wildcardRequire |-> "false",
     storeActivation |-> "unset", historyLimit |-> 2,
     responsePrefix |-> <<>>],
    [allowFrom |-> <<>>, mentionPatterns |-> <<"@clawd">>,
     groupRequire |-> "unset", wildcardRequire |-> "unset",
     storeActivation |-> "always", historyLimit |-> 1,
     responsePrefix |-> <<>>],
    [allowFrom |-> <<"+999">>, mentionPatterns |-> <<"@clawd">>,
     groupRequire |-> "unset", wildcardRequire |-> "true",
     storeActivation |-> "unset", historyLimit |-> NoLimit,
     responsePrefix |-> <<>>],
    [allowFrom |-> <<"111">>, mentionPatterns |-> <<"@clawd">>,
     groupRequire |-> "unset", wildcardRequire |-> "unset",
     storeActivation |-> "mention", historyLimit |-> 2,
     responsePrefix |-> <<"[bot]">>],
    [allowFrom |-> <<>>, mentionPatterns |-> <<>>,
     groupRequire |-> "false", wildcardRequire |-> "true",
     storeActivation |-> "bogus", historyLimit |-> NoLimit,
     responsePrefix |-> <<>>] }

DefaultChatCfg ==
  CHOOSE c \in ChatConfigs :
    /\ c.allowFrom = <<>>
    /\ c.storeActivation = "unset"
    /\ c.groupRequire = "unset"

\* WebInboundMsg
GroupMsg(conv, e164, name, body, mentioned) ==
  [chatType |-> "group", from |-> conv, conversationId |-> conv,
   body |-> body, timestamp |-> NoTime, senderE164 |-> e164,
   senderName |-> name, selfE164 |-> SelfE164, selfJid |-> SelfJid,
   mentionedJids |-> mentioned]

DirectMsg(e164, body) ==
  [chatType |-> "direct", from |-> e164, conversationId |-> e164,
   body |-> body, timestamp |-> NoTime, senderE164 |-> e164,
   senderName |-> "", selfE164 |-> SelfE164, selfJid |-> SelfJid,
   mentionedJids |-> <<>>]

NoMsg ==
  [chatType |-> "none", from |-> "", conversationId |-> "", body |-> <<>>,
   timestamp |-> NoTime, senderE164 |-> "", senderName |-> "",
   selfE164 |-> "", selfJid |-> "", mentionedJids |-> <<>>]

\* the messages the listener delivers
InboundMsgs ==
  { GroupMsg(Group1, "+111", "Alice", <<"hello">>, <<>>),
    GroupMsg(Group1, "+222", "Bob", <<"@Clawd", ZeroWidth, "ping">>, <<>>),
    GroupMsg(Group1, "+111", "Alice", <<"/activation", "always">>, <<>>),
    GroupMsg(Group1, "+222", "Bob", <<"@clawd", "/activation", "always">>, <<>>),
    GroupMsg(Group1, "+111", "Alice", <<"status">>, <<>>),
    GroupMsg(Group1, "+222", "Bob", <<"ok">>, <<>>),
    GroupMsg(Group1, "+111", "Alice", <<"@owner", "ping">>, <<SelfJid>>),
    GroupMsg(Group1, "+222", "Bob", <<"call", "999">>, <<>>),
    GroupMsg(Group2, "+222", "Bob", <<"hello">>, <<>>) }

\* the one message of the supervisor specification
SupMsgs == { DirectMsg("+111", <<"ok">>) }

\* ReplyPayload
Payload(text, media) == [text |-> text, mediaUrls |-> media]

\* what one call of the reply resolver does: it throws, or it streams tool
\* results through onToolResult and returns the final payloads
Result(throws, tools, final) ==
  [throws |-> throws, tools |-> tools, final |-> final]

ResolverResults ==
  { Result(FALSE, <<>>, <<>>),
    Result(TRUE, <<>>, <<>>),
    Result(FALSE, <<>>, <<Payload(<<"ok">>, <<>>)>>),
    Result(FALSE, <<>>, <<Payload(<<SILENT_REPLY_TOKEN>>, <<>>)>>),
    Result(FALSE, <<Payload(<<"working">>, <<>>)>>,
           <<Payload(<<HEARTBEAT_TOKEN>>, <<>>)>>) }

SupResults == { Result(FALSE, <<>>, <<>>) }

\* no processMessage call has settled since the latest inbound message
NoTurn ==
  [how |-> "none", msg |-> NoMsg, result |-> Result(FALSE, <<>>, <<>>),
   historyBefore |-> <<>>]

\* a REST response without an id, and a send without replyTo or mediaUrl
NoId == 0
NoReplyTo == ""
NoMediaUrl == ""

\* no sendMessageDiscord call has been made: its arguments (call), the
\* locals of sendDiscordText and sendDiscordMedia, the posts made, and what
\* the call settled with
DiscordIdle ==
  [pc |-> "idle",
   call |-> [text |-> <<>>, replyTo |-> NoReplyTo, mediaUrl |-> NoMediaUrl],
   text |-> <<>>, replyTo |-> NoReplyTo,
   chunks |-> <<>>, index |-> 1, isFirst |-> TRUE, last |-> NoId, res |-> NoId,
   posts |-> <<>>, result |-> "none"]

\* a connection whose listener is open and has handled no message
DrainIdle ==
  [pc |-> "open", socketOpen |-> TRUE, handled |-> 0, tasks |-> <<>>,
   backgroundTasks |-> {}, awaited |-> {}, pendingAtClose |-> {},
   warnings |-> 0, closeFailed |-> FALSE]

\* two monitor loops of one process
SlotLoops == {1, 2}

\* null in the active-listener slot
NoListener == <<0, 0>>

\* no loop has connected yet
SlotIdle ==
  [active |-> NoListener,
   loops |-> [i \in SlotLoops |-> [pc |-> "top", connection |-> 0, open |-> FALSE]]]

\* no entry under the session key
NoEntry == [present |-> FALSE, sessionId |-> "", updatedAt |-> 0]

\* the sessionId option left out
NoSessionId == ""

\* no runWebHeartbeatOnce call has been made: the options of the call, the
\* entry of the recipient's session key in the store, the entry as it was when
\* the call began, the snapshot the call took, another flow's write during
\* the await, the messages handed to the sender, and the emitted event
HbIdle ==
  [pc |-> "idle", clock |-> 1, store |-> NoEntry,
   sessionId |-> NoSessionId, before |-> NoEntry, sessionSnapshot |-> NoEntry,
   updatedMeanwhile |-> FALSE, sent |-> <<>>, event |-> "none"]

HandlerInit(sent) ==
  /\ hb = HbIdle
  /\ slot = SlotIdle
  /\ discord = DiscordIdle
  /\ drain = DrainIdle
  /\ dpc = "idle"
  /\ replyResult = [text |-> <<>>, mediaUrls |-> <<>>]
  /\ textChunks = <<>>
  /\ remainingText = <<>>
  /\ dIndex = 1
  /\ dAttempt = 1
  /\ caption = <<>>
  /\ mediaKind = ""
  /\ wire = <<>>
  /\ retryLog = <<>>
  /\ recentlySent = sent
  /\ groupHistories = [c \in Groups |-> <<>>]
  /\ turns = <<>>
  /\ lastInbound = NoMsg
  /\ outcome = "none"
  /\ arrivals = [c \in Groups |-> <<>>]
  /\ shown = [c \in Groups |-> <<>>]
  /\ outbound = <<>>
  /\ settled = NoTurn

\* const recentlySent = new Set<string>() of a fresh monitor run
MsgVarsInit == HandlerInit(<<>>)

(***************************************************************************)
(* Mention detection and activation.                                       *)
(***************************************************************************)
\* utils.isSelfChatMode
isSelfChatMode(selfE164, allowFrom) ==
  /\ selfE164 # ""
  /\ \E i \in 1..Len(allowFrom) :
       allowFrom[i] # "*" /\ normalizeE164(allowFrom[i]) = normalizeE164(selfE164)

\* clean(): the markers go before any matching
clean(body) == Remove(body, ZeroWidth)

isBotMentioned_JidsInSelfChat(msg, mentionCfg) ==
  LET isSelfChat == isSelfChatMode(msg.selfE164, mentionCfg.allowFrom)
      bodyClean == clean(msg.body)
  IN  \/ /\ Len(msg.mentionedJids) > 0
         /\ \E i \in 1..Len(msg.mentionedJids) :
              LET jid == msg.mentionedJids[i]
                  normalized == IF jidToE164(jid) # "" THEN jidToE164(jid) ELSE jid
              IN  msg.selfE164 # "" /\ normalized \in {msg.selfE164, msg.selfJid}
      \/ \E i \in 1..Len(mentionCfg.mentionPatterns) :
           \E j \in 1..Len(bodyClean) :
             bodyClean[j] \in PatternWords(mentionCfg.mentionPatterns[i])
      \/ /\ msg.selfE164 # ""
         /\ Digits(msg.selfE164) # ""
         /\ \E j \in 1..Len(bodyClean) : Digits(bodyClean[j]) = Digits(msg.selfE164)

isBotMentioned(msg, mentionCfg) ==
  LET isSelfChat == isSelfChatMode(msg.selfE164, mentionCfg.allowFrom)
      bodyClean == clean(msg.body)
  IN  \/ /\ Len(msg.mentionedJids) > 0
         /\ ~isSelfChat
         /\ \E i \in 1..Len(msg.mentionedJids) :
              LET jid == msg.mentionedJids[i]
                  normalized == IF jidToE164(jid) # "" THEN jidToE164(jid) ELSE jid
              IN  msg.selfE164 # "" /\ normalized \in {msg.selfE164, msg.selfJid}
      \/ \E i \in 1..Len(mentionCfg.mentionPatterns) :
           \E j \in 1..Len(bodyClean) :
             bodyClean[j] \in PatternWords(mentionCfg.mentionPatterns[i])
      \/ /\ msg.selfE164 # ""
         /\ Digits(msg.selfE164) # ""
         /\ \E j \in 1..Len(bodyClean) : Digits(bodyClean[j]) = Digits(msg.selfE164)

resolveGroupRequireMentionFor(conversationId) ==
  IF conversationId = Group1 /\ chatCfg.groupRequire \in {"true", "false"}
  THEN chatCfg.groupRequire = "true"
  ELSE IF chatCfg.wildcardRequire \in {"true", "false"}
       THEN chatCfg.wildcardRequire = "true"
       ELSE TRUE

\* group-activation.normalizeGroupActivation; "" is undefined
normalizeGroupActivation(raw) == IF raw \in {"mention", "always"} THEN raw ELSE ""

resolveGroupActivationFor_IgnoreStore(conversationId) ==
  IF resolveGroupRequireMentionFor(conversationId) = FALSE THEN "always" ELSE "mention"

resolveGroupActivationFor(conversationId) ==
  LET entry == IF conversationId = Group1 THEN chatCfg.storeActivation ELSE "unset"
      requireMention == resolveGroupRequireMentionFor(conversationId)
      defaultActivation == IF requireMention = FALSE THEN "always" ELSE "mention"
  IN  IF normalizeGroupActivation(entry) # ""
      THEN normalizeGroupActivation(entry)
      ELSE defaultActivation

resolveOwnerList(selfE164) ==
  LET raw == IF Len(chatCfg.allowFrom) > 0 THEN chatCfg.allowFrom
             ELSE IF selfE164 # "" THEN <<selfE164>> ELSE <<>>
  IN  { normalizeE164(raw[i]) : i \in { j \in 1..Len(raw) : raw[j] # "" /\ raw[j] # "*" } }
        \ {""}

isOwnerSender_Anyone(msg) == normalizeE164(msg.senderE164) # ""

\* the sender's normalized number is in the normalized owner list
isOwnerSender(msg) ==
  LET sender == normalizeE164(msg.senderE164)
  IN  sender # "" /\ sender \in resolveOwnerList(msg.selfE164)

isStatusCommand_SlashOnly(body) == body # <<>> /\ Head(body) = "/status"

isStatusCommand(body) == body = <<"status">> \/ (body # <<>> /\ Head(body) = "/status")

RECURSIVE RemovePatterns(_, _)
RemovePatterns(text, patterns) ==
  IF patterns = <<>> THEN text
  ELSE LET hits == { j \in 1..Len(text) : text[j] \in PatternWords(Head(patterns)) }
           first == IF hits = {} THEN 0
                    ELSE CHOOSE j \in hits : \A k \in hits : j <= k
       IN  RemovePatterns(IF first = 0 THEN text
                          ELSE SubSeq(text, 1, first - 1) \o SubSeq(text, first + 1, Len(text)),
                          Tail(patterns))

stripMentionsForCommand(text, selfE164) ==
  LET result == RemovePatterns(text, chatCfg.mentionPatterns)
  IN  IF selfE164 # "" /\ Digits(selfE164) # ""
      THEN SelectSeq(result, LAMBDA w : Digits(w) # Digits(selfE164))
      ELSE result

\* group-activation.parseActivationCommand
parseActivationCommand(commandBody) ==
  [hasCommand |-> commandBody # <<>> /\ Head(commandBody) = "/activation"]

(***************************************************************************)
(* Group history and the body handed to the resolver.                      *)
(***************************************************************************)
groupHistoryLimit ==
  IF chatCfg.historyLimit = NoLimit THEN DEFAULT_GROUP_HISTORY_LIMIT
  ELSE chatCfg.historyLimit

HistoryEntry(msg) ==
  [sender |-> IF msg.senderName # "" THEN msg.senderName
              ELSE IF msg.senderE164 # "" THEN msg.senderE164 ELSE "Unknown",
   body |-> msg.body, timestamp |-> msg.timestamp]

PushHistory_EvictNewest(history, entry, limit) ==
  LET h == Append(history, entry)
  IN  IF Len(h) > limit THEN SubSeq(h, 1, limit) ELSE h

\* history.push(...); while (history.length > groupHistoryLimit) history.shift()
PushHistory(history, entry, limit) ==
  LET h == Append(history, entry)
  IN  IF Len(h) > limit THEN SubSeq(h, Len(h) - limit + 1, Len(h)) ELSE h

\* auto-reply/envelope.formatAgentEnvelope
formatAgentEnvelope(from, timestamp, body) ==
  <<"[WhatsApp", from>>
    \o (IF timestamp = NoTime THEN <<>> ELSE <<ToString(timestamp)>>)
    \o <<"]">> \o body

buildLine(msg) ==
  LET prefixStr == IF Len(chatCfg.allowFrom) > 0 THEN <<>> ELSE <<"[clawdis]">>
      senderLabel ==
        IF msg.chatType = "group"
        THEN <<IF msg.senderName # "" THEN msg.senderName
               ELSE IF msg.senderE164 # "" THEN msg.senderE164 ELSE "Someone", ":">>
        ELSE <<>>
  IN  formatAgentEnvelope(msg.from, msg.timestamp, prefixStr \o senderLabel \o msg.body)

CombinedBody(msg, history) ==
  IF msg.chatType # "group" THEN buildLine(msg)
  ELSE LET historyWithoutCurrent ==
             IF Len(history) > 0 THEN SubSeq(history, 1, Len(history) - 1) ELSE <<>>
           historyText ==
             Flatten([i \in 1..Len(historyWithoutCurrent) |->
               (IF i = 1 THEN <<>> ELSE <<"\\n">>)
                 \o formatAgentEnvelope(msg.conversationId,
                      historyWithoutCurrent[i].timestamp,
                      <<historyWithoutCurrent[i].sender, ":">>
                        \o historyWithoutCurrent[i].body)])
           base ==
             IF Len(historyWithoutCurrent) > 0
             THEN <<"[Chat messages since your last reply - for context]", "\\n">>
                    \o historyText
                    \o <<"\\n", "\\n", "[Current message - respond to this]", "\\n">>
                    \o buildLine(msg)
             ELSE buildLine(msg)
           senderLabel ==
             IF msg.senderName # "" /\ msg.senderE164 # ""
             THEN <<msg.senderName, "(", msg.senderE164, ")">>
             ELSE IF msg.senderName # "" THEN <<msg.senderName>>
             ELSE IF msg.senderE164 # "" THEN <<msg.senderE164>> ELSE <<"Unknown">>
       IN  base \o <<"\\n", "[from:">> \o senderLabel \o <<"]">>

(***************************************************************************)
(* Connection supervisor: monitorWebProvider.                              *)
(***************************************************************************)
NoReason == [kind |-> "none", status |-> NoStatus, isLoggedOut |-> FALSE]
AbortedReason == [kind |-> "aborted", status |-> NoStatus, isLoggedOut |-> FALSE]
\* values the close race gets from listener.onClose: undefined, a logout,
\* or a rejection (mapped to status 500 by the catch of the race)
CloseReasons ==
  { [kind |-> "undefined", status |-> NoStatus, isLoggedOut |-> FALSE],
    [kind |-> "reason", status |-> 401, isLoggedOut |-> TRUE],
    [kind |-> "reason", status |-> RejectedStatus, isLoggedOut |-> FALSE] }
WatchdogReason ==
  [kind |-> "reason", status |-> WatchdogStatus, isLoggedOut |-> FALSE]

InitStatus ==
  [running |-> TRUE, connected |-> FALSE, reconnectAttempts |-> 0,
   lastDisconnect |-> [status |-> NoStatus, loggedOut |-> FALSE]]

stopRequested_Never == FALSE

stopRequested == aborted

\* variant: an off-by-one comparison, reconnectAttempts > maxAttempts
MaxAttemptsReached_OffByOne(policy, attempts) ==
  policy.maxAttempts > 0 /\ attempts > policy.maxAttempts

\* reconnectAttempts >= reconnectPolicy.maxAttempts, when maxAttempts > 0
MaxAttemptsReached_ZeroStops(policy, attempts) ==
  attempts >= policy.maxAttempts

MaxAttemptsReached(policy, attempts) ==
  policy.maxAttempts > 0 /\ attempts >= policy.maxAttempts

AttemptsAfterUptime_AtInterval(attempts, uptimeMs) ==
  IF uptimeMs >= cfg.heartbeatSeconds * 1000 THEN 0 ELSE attempts

\* uptimeMs > heartbeatSeconds * 1000: a healthy stretch resets the backoff
AttemptsAfterUptime(attempts, uptimeMs) ==
  IF uptimeMs > cfg.heartbeatSeconds * 1000 THEN 0 ELSE attempts

\* variant: the increment is lost, so the backoff is computed for attempt 0
NextAttempt_NoIncrement(attempts) == attempts

\* reconnectAttempts += 1
NextAttempt(attempts) == attempts + 1

closeListener_KeepsSlot ==
  /\ activeListener' = activeListener
  /\ watchdogTimer' = FALSE
  /\ closeCalls' = [closeCalls EXCEPT ![factoryCalls] = @ + 1]

\* the synchronous head of closeListener followed by listener.close()
closeListener ==
  /\ activeListener' = 0
  /\ watchdogTimer' = FALSE
  /\ closeCalls' = [closeCalls EXCEPT ![factoryCalls] = @ + 1]

FinalStatus_StillConnected(st) == [st EXCEPT !.running = FALSE]

\* the block after the while loop
FinalStatus(st) == [st EXCEPT !.running = FALSE, !.connected = FALSE]

SupInit ==
  /\ now = 0
  /\ cfg \in [keepAlive : BOOLEAN, heartbeatSeconds : {60},
              reconnectPolicy : Policies, hasSignalClose : BOOLEAN]
  /\ aborted = FALSE
  /\ pc = "loopTop"
  /\ afterClose = "none"
  /\ reconnectAttempts = 0
  /\ sigintStop = FALSE
  /\ sigintRegistered = TRUE
  /\ factoryCalls = 0
  /\ startedAt = NoTime
  /\ lastMessageAt = NoTime
  /\ handledMessages = 0
  /\ watchdogTimer = FALSE
  /\ activeListener = 0
  /\ closeCalls = <<>>
  /\ onCloseSettled = FALSE
  /\ raceResult = NoReason
  /\ status = InitStatus
  /\ delay = [attempt |-> 0, ms |-> 0]
  /\ ticks = 0
  /\ runtimeErrors = {}
  /\ chatCfg = DefaultChatCfg
  /\ MsgVarsInit

\* while (true) { if (stopRequested()) break; ... await listenerFactory(...)
LoopTop ==
  /\ pc = "loopTop"
  /\ IF stopRequested
       THEN /\ pc' = "done"
            /\ status' = FinalStatus(status)
            /\ sigintRegistered' = FALSE
            /\ UNCHANGED <<factoryCalls, startedAt, lastMessageAt,
                           handledMessages, watchdogTimer, closeCalls,
                           onCloseSettled, raceResult>>
       ELSE /\ factoryCalls < MaxConnections
            /\ pc' = "connecting"
            /\ factoryCalls' = factoryCalls + 1
            /\ closeCalls' = Append(closeCalls, 0)
            /\ startedAt' = now
            /\ lastMessageAt' = NoTime
            /\ handledMessages' = 0
            /\ watchdogTimer' = FALSE
            /\ onCloseSettled' = FALSE
            /\ raceResult' = NoReason
            /\ UNCHANGED <<status, sigintRegistered>>
  /\ UNCHANGED <<hb, slot, drain, discord, dlvVars, msgVars, runtimeErrors, now, cfg, aborted, afterClose, reconnectAttempts, sigintStop,
                 activeListener, delay, ticks>>

\* the factory resolved: connected status, setActiveWebListener, timers,
\* then either the one-shot close or the close race
ListenerReady ==
  /\ pc = "connecting"
  /\ status' = [status EXCEPT !.connected = TRUE]
  /\ IF cfg.keepAlive
       THEN /\ activeListener' = factoryCalls
            /\ watchdogTimer' = TRUE
            /\ pc' = "race"
            /\ raceResult' = IF aborted THEN AbortedReason ELSE NoReason
            /\ UNCHANGED <<closeCalls, afterClose>>
       ELSE /\ closeListener
            /\ pc' = "closing"
            /\ afterClose' = "return"
            /\ UNCHANGED raceResult
  /\ UNCHANGED <<hb, slot, drain, discord, dlvVars, msgVars, runtimeErrors, now, cfg, aborted, reconnectAttempts, sigintStop,
                 sigintRegistered, factoryCalls, startedAt, lastMessageAt,
                 handledMessages, onCloseSettled, delay, ticks>>

\* listener.onClose settles on its own
OnCloseResolves(reason) ==
  /\ pc = "race"
  /\ ~onCloseSettled
  /\ onCloseSettled' = TRUE
  /\ raceResult' = IF raceResult.kind = "none" THEN reason ELSE raceResult
  /\ UNCHANGED <<hb, slot, drain, discord, dlvVars, msgVars, runtimeErrors, now, cfg, aborted, pc, afterClose, reconnectAttempts,
                 sigintStop, sigintRegistered, factoryCalls, startedAt,
                 lastMessageAt, handledMessages, watchdogTimer, activeListener,
                 closeCalls, status, delay, ticks>>

\* the external abort signal fires
Abort ==
  /\ ~aborted
  /\ pc \notin {"done", "returned"}
  /\ aborted' = TRUE
  /\ raceResult' = IF pc = "race" /\ raceResult.kind = "none"
                     THEN AbortedReason ELSE raceResult
  /\ UNCHANGED <<hb, slot, drain, discord, dlvVars, msgVars, runtimeErrors, now, cfg, pc, afterClose, reconnectAttempts, sigintStop,
                 sigintRegistered, factoryCalls, startedAt, lastMessageAt,
                 handledMessages, watchdogTimer, activeListener, closeCalls,
                 onCloseSettled, status, delay, ticks>>

\* process.once("SIGINT", handleSigint)
Sigint ==
  /\ sigintRegistered
  /\ ~sigintStop
  /\ pc \notin {"done", "returned"}
  /\ sigintStop' = TRUE
  /\ sigintRegistered' = FALSE
  /\ UNCHANGED <<hb, slot, drain, discord, dlvVars, msgVars, runtimeErrors, now, cfg, aborted, pc, afterClose, reconnectAttempts,
                 factoryCalls, startedAt, lastMessageAt, handledMessages,
                 watchdogTimer, activeListener, closeCalls, onCloseSettled,
                 raceResult, status, delay, ticks>>

LoggedOut_Never(reason) == FALSE

\* const loggedOut = typeof reason === "object" && ... reason.isLoggedOut
LoggedOut(reason) == reason.kind = "reason" /\ reason.isLoggedOut

\* the continuation of the close race, up to its `await closeListener()`
AfterRace ==
  /\ pc = "race"
  /\ raceResult.kind # "none"
  /\ LET attempts1 == AttemptsAfterUptime(reconnectAttempts, now - startedAt)
         attempts2 == NextAttempt(attempts1)
         disconnected ==
           [status EXCEPT !.connected = FALSE,
                          !.lastDisconnect =
                             [status |-> raceResult.status,
                              loggedOut |-> raceResult.isLoggedOut]]
     IN  /\ closeListener
         /\ pc' = "closing"
         /\ IF stopRequested \/ sigintStop \/ raceResult.kind = "aborted"
              THEN /\ reconnectAttempts' = attempts1
                   /\ status' = [status EXCEPT !.reconnectAttempts = attempts1]
                   /\ afterClose' = "break"
                   /\ UNCHANGED <<delay, runtimeErrors>>
              ELSE IF LoggedOut(raceResult)
              THEN /\ reconnectAttempts' = attempts1
                   /\ status' = [disconnected EXCEPT
                                   !.reconnectAttempts = attempts1]
                   /\ afterClose' = "break"
                   /\ runtimeErrors' = runtimeErrors \cup {"loggedOut"}
                   /\ UNCHANGED delay
              ELSE /\ reconnectAttempts' = attempts2
                   /\ status' = [disconnected EXCEPT
                                   !.reconnectAttempts = attempts2]
                   /\ IF MaxAttemptsReached(cfg.reconnectPolicy, attempts2)
                        THEN /\ afterClose' = "break"
                             /\ runtimeErrors' = runtimeErrors \cup {"maxAttempts"}
                             /\ UNCHANGED delay
                        ELSE /\ afterClose' = "sleep"
                             /\ runtimeErrors' = runtimeErrors \cup {"retry"}
                             /\ delay' =
                                  [attempt |-> attempts2,
                                   ms |-> computeBackoff(cfg.reconnectPolicy,
                                                         attempts2)]
  /\ UNCHANGED <<hb, slot, drain, discord, dlvVars, msgVars, now, cfg, aborted, sigintStop, sigintRegistered, factoryCalls,
                 startedAt, lastMessageAt, handledMessages, onCloseSettled,
                 raceResult, ticks>>

\* closeListener returned: break to the final status, return, or sleep
CloseDone ==
  /\ pc = "closing"
  /\ CASE afterClose = "return" ->
            /\ pc' = "returned"
            /\ UNCHANGED <<status, sigintRegistered>>
       [] afterClose = "break" \/ (afterClose = "sleep" /\ aborted) ->
            /\ pc' = "done"
            /\ status' = FinalStatus(status)
            /\ sigintRegistered' = FALSE
       [] OTHER ->
            /\ pc' = "sleeping"
            /\ UNCHANGED <<status, sigintRegistered>>
  /\ afterClose' = "none"
  /\ UNCHANGED <<hb, slot, drain, discord, dlvVars, msgVars, runtimeErrors, now, cfg, aborted, reconnectAttempts, sigintStop,
                 factoryCalls, startedAt, lastMessageAt, handledMessages,
                 watchdogTimer, activeListener, closeCalls, onCloseSettled,
                 raceResult, delay, ticks>>

\* await sleep(delay, abortSignal): resolves, or rejects once aborted
SleepDone ==
  /\ pc = "sleeping"
  /\ IF aborted
       THEN /\ pc' = "done"
            /\ status' = FinalStatus(status)
            /\ sigintRegistered' = FALSE
       ELSE /\ pc' = "loopTop"
            /\ UNCHANGED <<status, sigintRegistered>>
  /\ UNCHANGED <<hb, slot, drain, discord, dlvVars, msgVars, runtimeErrors, now, cfg, aborted, afterClose, reconnectAttempts, sigintStop,
                 factoryCalls, startedAt, lastMessageAt, handledMessages,
                 watchdogTimer, activeListener, closeCalls, onCloseSettled,
                 raceResult, delay, ticks>>

\* steps by which the clock advances: one watchdog interval, or the first
\* interval past the timeout
TickSteps == {WATCHDOG_CHECK_MS, MESSAGE_TIMEOUT_MS + WATCHDOG_CHECK_MS}

\* if (lastMessageAt) { if (Date.now() - lastMessageAt > MESSAGE_TIMEOUT_MS)
WatchdogExpired(last, at) == last # NoTime /\ at - last > MESSAGE_TIMEOUT_MS

\* Time passes by d, the watchdog callback running at every interval in
\* between; the clock stops at the first callback that finds the timeout
\* expired, which closes the listener and signals the close.
WatchdogTick(d) ==
  /\ ticks < MaxTicks
  /\ pc = "race"
  /\ ticks' = ticks + 1
  /\ LET fires == {t \in {now + k * WATCHDOG_CHECK_MS :
                            k \in 1..(d \div WATCHDOG_CHECK_MS)} :
                      watchdogTimer /\ WatchdogExpired(lastMessageAt, t)}
     IN  IF fires # {}
           THEN /\ now' = CHOOSE t \in fires : \A u \in fires : t <= u
                /\ closeListener
                /\ IF cfg.hasSignalClose /\ ~onCloseSettled
                     THEN /\ onCloseSettled' = TRUE
                          /\ raceResult' = IF raceResult.kind = "none"
                                             THEN WatchdogReason
                                             ELSE raceResult
                     ELSE UNCHANGED <<onCloseSettled, raceResult>>
           ELSE /\ now' = now + d
                /\ UNCHANGED <<activeListener, watchdogTimer, closeCalls,
                               onCloseSettled, raceResult>>
  /\ UNCHANGED <<hb, slot, drain, discord, dlvVars, msgVars, runtimeErrors, cfg, aborted, pc, afterClose, reconnectAttempts,
                 sigintStop, sigintRegistered, factoryCalls, startedAt,
                 lastMessageAt, handledMessages, status, delay>>

(***************************************************************************)
(* The inbound message handler: onMessage and processMessage.              *)
(***************************************************************************)
ConsumeEcho_Keep(sent, body) == sent

\* recentlySent.delete(body) after a hit
ConsumeEcho(sent, body) == Remove(sent, body)

ShouldStore_BypassFlipped(shouldBypassMention, requireMention, wasMentioned) ==
  shouldBypassMention /\ requireMention /\ ~wasMentioned

\* if (!shouldBypassMention && requireMention && !wasMentioned) return
ShouldStore(shouldBypassMention, requireMention, wasMentioned) ==
  ~shouldBypassMention /\ requireMention /\ ~wasMentioned

Handled(kind, sent, history, appended, combinedBody) ==
  [outcome |-> kind, sent |-> sent, history |-> history,
   appended |-> appended, combinedBody |-> combinedBody]

\* processMessage up to the resolver call
processMessageStart(msg, sent, history, appended) ==
  LET combinedBody == CombinedBody(msg, history)
  IN  IF Contains(sent, combinedBody)
      THEN Handled("echoCombined", ConsumeEcho(sent, combinedBody), history,
                   appended, combinedBody)
      ELSE Handled("resolver", sent, history, appended, combinedBody)

\* onMessage, from the echo check to the resolver call; history is the
\* array of the message's conversation
HandleInbound(msg, sent, history) ==
  IF Contains(sent, msg.body)
  THEN Handled("echo", ConsumeEcho(sent, msg.body), history, FALSE, <<>>)
  ELSE IF msg.chatType # "group"
  THEN processMessageStart(msg, sent, history, FALSE)
  ELSE LET commandBody == stripMentionsForCommand(msg.body, msg.selfE164)
           activationCommand == parseActivationCommand(commandBody)
           isOwner == isOwnerSender(msg)
           statusCommand == isStatusCommand(commandBody)
           shouldBypassMention ==
             isOwner /\ (activationCommand.hasCommand \/ statusCommand)
           pushed == IF shouldBypassMention THEN history
                     ELSE PushHistory(history, HistoryEntry(msg), groupHistoryLimit)
           wasMentioned == isBotMentioned(msg, chatCfg)
           activation == resolveGroupActivationFor(msg.conversationId)
           requireMention == activation # "always"
       IN  IF activationCommand.hasCommand /\ ~isOwner
           THEN Handled("dropped", sent, history, FALSE, <<>>)
           ELSE IF ShouldStore(shouldBypassMention, requireMention, wasMentioned)
           THEN Handled("stored", sent, pushed, TRUE, <<>>)
           ELSE processMessageStart(msg, sent, pushed, ~shouldBypassMention)

\* which entries of the buffer r.history have been handed to a resolver
\* call, given the marks of the entries before this message (an appended
\* one unmarked at the end, the oldest dropped with the entry the cap pushed
\* out): a call renders history.slice(0, -1) as context, and its current
\* message is the last entry when the message was appended
ShownBy(r, marks) ==
  LET kept == SubSeq(marks, Len(marks) - Len(r.history) + 1, Len(marks))
  IN  IF r.outcome # "resolver" THEN kept
      ELSE [k \in 1..Len(kept) |-> kept[k] \/ k < Len(kept) \/ r.appended]

\* onMessage with at most inFlight turns awaiting their resolver
OnMessageWithin(msg, inFlight) ==
  /\ pc = "race"
  /\ LET group == msg.chatType = "group"
         history == IF group THEN groupHistories[msg.conversationId] ELSE <<>>
         r == HandleInbound(msg, recentlySent, history)
     IN  /\ r.outcome = "resolver" => Len(turns) < inFlight
         /\ handledMessages' = handledMessages + 1
         /\ lastMessageAt' = now
         /\ lastInbound' = msg
         /\ outcome' = r.outcome
         /\ recentlySent' = r.sent
         /\ groupHistories' =
              IF group THEN [groupHistories EXCEPT ![msg.conversationId] = r.history]
              ELSE groupHistories
         /\ arrivals' =
              IF r.appended
              THEN [arrivals EXCEPT ![msg.conversationId] = Append(@, HistoryEntry(msg))]
              ELSE arrivals
         /\ shown' =
              IF group
              THEN [shown EXCEPT ![msg.conversationId] =
                      ShownBy(r, IF r.appended THEN Append(@, FALSE) ELSE @)]
              ELSE shown
         /\ turns' =
              IF r.outcome = "resolver"
              THEN Append(turns, [msg |-> msg, combinedBody |-> r.combinedBody,
                                  shouldClearGroupHistory |-> group])
              ELSE turns
         /\ outbound' = <<>>
         /\ settled' = NoTurn
  /\ UNCHANGED <<hb, slot, drain, discord, dlvVars, runtimeErrors, now, cfg, aborted, pc, afterClose, reconnectAttempts,
                 sigintStop, sigintRegistered, factoryCalls, startedAt,
                 watchdogTimer, activeListener, closeCalls, onCloseSettled,
                 raceResult, status, delay, ticks, chatCfg>>

OnMessage(msg) == OnMessageWithin(msg, MaxInFlight)

\* String.prototype.trim on a text of words: leading and trailing
\* whitespace words go
Trim(text) ==
  LET solid == { i \in 1..Len(text) : text[i] \notin {" ", "\n"} }
  IN  IF solid = {} THEN <<>>
      ELSE SubSeq(text, CHOOSE i \in solid : \A j \in solid : i <= j,
                  CHOOSE i \in solid : \A j \in solid : i >= j)

isSilentReply_Never(payload) == FALSE

isSilentReply(payload) ==
  Trim(payload.text) = <<SILENT_REPLY_TOKEN>> /\ payload.mediaUrls = <<>>

\* auto-reply/heartbeat.stripHeartbeatToken in "message" mode
stripHeartbeatToken(text) ==
  [text |-> Remove(text, HEARTBEAT_TOKEN),
   shouldSkip |-> Remove(text, HEARTBEAT_TOKEN) = <<>>,
   didStrip |-> Contains(text, HEARTBEAT_TOKEN)]

StartsWith(text, prefix) ==
  Len(text) >= Len(prefix) /\ SubSeq(text, 1, Len(prefix)) = prefix

\* heartbeat stripping and the response prefix, for tool and final payloads
PreparePayload(payload) ==
  LET hasToken == Contains(payload.text, HEARTBEAT_TOKEN)
      stripped == stripHeartbeatToken(payload.text)
      skip == hasToken /\ stripped.shouldSkip /\ payload.mediaUrls = <<>>
      text == IF hasToken THEN stripped.text ELSE payload.text
      prefixed ==
        IF /\ chatCfg.responsePrefix # <<>>
           /\ text # <<>>
           /\ text # <<HEARTBEAT_TOKEN>>
           /\ ~StartsWith(text, chatCfg.responsePrefix)
        THEN chatCfg.responsePrefix \o text
        ELSE text
  IN  [skip |-> skip, payload |-> [payload EXCEPT !.text = prefixed]]

EvictOldest(sent) == IF Len(sent) > MAX_RECENT_MESSAGES THEN Tail(sent) ELSE sent

\* deliverWebReply sends nothing for a payload without text and media: no
\* chunk, no media item, no remaining text
NothingToSend(payload) == payload.text = <<>> /\ payload.mediaUrls = <<>>

\* one deliverWebReply call of the handler, whose payloads have at most one
\* chunk and one media item: it resolves after its send, rejects when the
\* send (or the fallback send) failed, and resolves at once with nothing to
\* send
Delivery(kind, payload, ok) ==
  [kind |-> kind, payload |-> payload,
   resolved |-> ok \/ NothingToSend(payload),
   sent |-> ok /\ ~NothingToSend(payload)]

\* the link with a chain that stays rejected after a failed delivery
sendToolResult_ChainBreaks(st, payload, ok) ==
  IF \E k \in 1..Len(st.outbound) : ~st.outbound[k].resolved THEN st
  ELSE IF NothingToSend(payload) \/ isSilentReply(payload) THEN st
  ELSE LET prep == PreparePayload(payload)
           d == Delivery("tool", prep.payload, ok)
       IN  IF prep.skip THEN st
           ELSE IF ~d.resolved THEN [st EXCEPT !.outbound = Append(@, d)]
           ELSE [didSendReply |-> TRUE,
                 sent |-> IF prep.payload.text # <<>>
                          THEN EvictOldest(SetAdd(st.sent, prep.payload.text))
                          ELSE st.sent,
                 outbound |-> Append(st.outbound, d)]

\* sendToolResult and its link of toolSendChain; ok is whether the send of
\* deliverWebReply succeeded
sendToolResult(st, payload, ok) ==
  IF payload.text = <<>> /\ payload.mediaUrls = <<>> THEN st
  ELSE IF isSilentReply(payload) THEN st
  ELSE LET prep == PreparePayload(payload)
           d == Delivery("tool", prep.payload, ok)
       IN  IF prep.skip THEN st
           ELSE IF ~d.resolved
           THEN [st EXCEPT !.outbound = Append(@, d)]
           ELSE [didSendReply |-> TRUE,
                 sent |-> IF prep.payload.text # <<>>
                          THEN EvictOldest(SetAdd(st.sent, prep.payload.text))
                          ELSE st.sent,
                 outbound |-> Append(st.outbound, d)]

\* the round with a failure that ends the batch
sendFinalReply_StopBatch(st, payload, ok, combinedBody) ==
  IF \E k \in 1..Len(st.outbound) :
       st.outbound[k].kind = "final" /\ ~st.outbound[k].resolved
  THEN st
  ELSE LET prep == PreparePayload(payload)
           d == Delivery("final", prep.payload, ok)
       IN  IF prep.skip THEN st
           ELSE IF ~d.resolved THEN [st EXCEPT !.outbound = Append(@, d)]
           ELSE [didSendReply |-> TRUE,
                 sent |-> st.sent,
                 outbound |-> Append(st.outbound, d)]

\* one round of `for (const replyPayload of sendableReplies)`
sendFinalReply(st, payload, ok, combinedBody) ==
  LET prep == PreparePayload(payload)
      d == Delivery("final", prep.payload, ok)
  IN  IF prep.skip THEN st
      ELSE IF ~d.resolved
      THEN [st EXCEPT !.outbound = Append(@, d)]
      ELSE [didSendReply |-> TRUE,
            sent |-> IF prep.payload.text # <<>>
                     THEN EvictOldest(SetAdd(SetAdd(st.sent, prep.payload.text),
                                             combinedBody))
                     ELSE st.sent,
            outbound |-> Append(st.outbound, d)]

RECURSIVE SendTools(_, _, _, _)
SendTools(payloads, oks, k, st) ==
  IF k > Len(payloads) THEN st
  ELSE SendTools(payloads, oks, k + 1, sendToolResult(st, payloads[k], oks[k]))

RECURSIVE SendFinals(_, _, _, _, _)
SendFinals(payloads, oks, k, st, combinedBody) ==
  IF k > Len(payloads) THEN st
  ELSE SendFinals(payloads, oks, k + 1,
                  sendFinalReply(st, payloads[k], oks[k], combinedBody),
                  combinedBody)

ClearsHistory_DespiteThrow(result, turn, didSendReply) ==
  turn.shouldClearGroupHistory /\ didSendReply

\* `if (shouldClearGroupHistory && didSendReply)`, which a resolver that
\* threw never reaches
ClearsHistory(result, turn, didSendReply) ==
  ~result.throws /\ turn.shouldClearGroupHistory /\ didSendReply

\* the resolver call of turn i settles and processMessage runs to its end
FinishTurn(i, result, toolOks, finalOks) ==
  /\ i \in 1..Len(turns)
  /\ LET turn == turns[i]
         conversationId == turn.msg.conversationId
         afterTools ==
           SendTools(result.tools, toolOks, 1,
                     [didSendReply |-> FALSE, sent |-> recentlySent,
                      outbound |-> <<>>])
         sendableReplies == SelectSeq(result.final, LAMBDA p : ~isSilentReply(p))
         afterFinals ==
           IF result.throws THEN afterTools
           ELSE SendFinals(sendableReplies, finalOks, 1, afterTools, turn.combinedBody)
         clear == ClearsHistory(result, turn, afterFinals.didSendReply)
     IN  /\ recentlySent' = afterFinals.sent
         /\ groupHistories' =
              IF clear THEN [groupHistories EXCEPT ![conversationId] = <<>>]
              ELSE groupHistories
         /\ arrivals' =
              IF clear THEN [arrivals EXCEPT ![conversationId] = <<>>]
              ELSE arrivals
         /\ shown' =
              IF clear THEN [shown EXCEPT ![conversationId] = <<>>]
              ELSE shown
         /\ turns' = SubSeq(turns, 1, i - 1) \o SubSeq(turns, i + 1, Len(turns))
         /\ outbound' = afterFinals.outbound
         /\ settled' =
              [how |-> IF result.throws THEN "rejected" ELSE "resolved",
               msg |-> turn.msg, result |-> result,
               historyBefore |->
                 IF turn.shouldClearGroupHistory
                 THEN groupHistories[conversationId] ELSE <<>>]
  /\ UNCHANGED <<hb, slot, drain, discord, supVars, dlvVars, chatCfg, lastInbound, outcome>>

Turn(result) ==
  \E i \in 1..Len(turns) :
    \E toolOks \in [1..Len(result.tools) -> BOOLEAN] :
      \E finalOks \in [1..Len(result.final) -> BOOLEAN] :
        FinishTurn(i, result, toolOks, finalOks)

SupNext ==
  \/ LoopTop
  \/ ListenerReady
  \/ \E reason \in CloseReasons : OnCloseResolves(reason)
  \/ Abort
  \/ Sigint
  \/ AfterRace
  \/ CloseDone
  \/ SleepDone
  \/ \E d \in TickSteps : WatchdogTick(d)
  \/ \E msg \in SupMsgs : handledMessages < MaxSupMessages /\ OnMessage(msg)
  \/ \E result \in SupResults : Turn(result)

SpecSup == SupInit /\ [][SupNext]_vars

\* every await of the supervisor settles: the factory, closeListener and the
\* backoff sleep return, and a settled close race is continued
SupFairness ==
  /\ WF_vars(LoopTop)
  /\ WF_vars(ListenerReady)
  /\ WF_vars(AfterRace)
  /\ WF_vars(CloseDone)
  /\ WF_vars(SleepDone)

\* the supervisor on a connection without inbound traffic
SupQuietNext ==
  \/ LoopTop
  \/ ListenerReady
  \/ \E reason \in CloseReasons : OnCloseResolves(reason)
  \/ Abort
  \/ Sigint
  \/ AfterRace
  \/ CloseDone
  \/ SleepDone
  \/ \E d \in TickSteps : WatchdogTick(d)

SpecSupLive == SupInit /\ [][SupQuietNext]_vars /\ SupFairness

\* the supervisor with inbound traffic, its own continuations being fair;
\* what the listener and the environment do (onClose, abort, SIGINT,
\* messages, the passing of time) is not
SpecSupWatch == SupInit /\ [][SupNext]_vars /\ SupFairness

(***************************************************************************)
(* The message handler on one established connection.                      *)
(***************************************************************************)
ConnectedInit(sent) ==
  /\ now = 0
  /\ cfg = [keepAlive |-> TRUE, heartbeatSeconds |-> 60,
            reconnectPolicy |-> CHOOSE p \in Policies :
                                  p.maxAttempts = 0 /\ p.initialMs = 1000,
            hasSignalClose |-> TRUE]
  /\ aborted = FALSE
  /\ pc = "race"
  /\ afterClose = "none"
  /\ reconnectAttempts = 0
  /\ sigintStop = FALSE
  /\ sigintRegistered = TRUE
  /\ factoryCalls = 1
  /\ startedAt = 0
  /\ lastMessageAt = NoTime
  /\ handledMessages = 0
  /\ watchdogTimer = TRUE
  /\ activeListener = 1
  /\ closeCalls = <<0>>
  /\ onCloseSettled = FALSE
  /\ raceResult = NoReason
  /\ status = [InitStatus EXCEPT !.connected = TRUE]
  /\ delay = [attempt |-> 0, ms |-> 0]
  /\ ticks = 0
  /\ runtimeErrors = {}
  /\ chatCfg \in ChatConfigs
  /\ HandlerInit(sent)

MsgInit == ConnectedInit(<<>>)

MsgNext ==
  \/ \E msg \in InboundMsgs : handledMessages < MaxMessages /\ OnMessage(msg)
  \/ \E result \in ResolverResults : Turn(result)

SpecMsg == MsgInit /\ [][MsgNext]_vars

(***************************************************************************)
(* The echo guard: one message text arriving repeatedly.                   *)
(***************************************************************************)
EchoConfigs ==
  { c \in ChatConfigs : c.allowFrom = <<"*">> \/ c = DefaultChatCfg }

EchoMsgs ==
  { DirectMsg("+111", <<"ok">>),
    GroupMsg(Group1, "+222", "Bob", <<"ok">>, <<>>) }

EchoResults ==
  { Result(FALSE, <<>>, <<>>),
    Result(FALSE, <<>>, <<Payload(<<"ok">>, <<>>)>>) }

EchoInit ==
  /\ MsgInit
  /\ chatCfg \in EchoConfigs

EchoNext ==
  \/ \E msg \in EchoMsgs : handledMessages < MaxEchoMessages /\ OnMessage(msg)
  \/ \E result \in EchoResults : Turn(result)

SpecEcho == EchoInit /\ [][EchoNext]_vars

(***************************************************************************)
(* The echo set near its capacity, as it is after a long run of replies.   *)
(***************************************************************************)
\* the text of the i-th earlier reply
EarlierReply(i) == <<"reply", ToString(i)>>

EarlierReplies(n) == [i \in 1..n |-> EarlierReply(i)]

FullMsgs == { DirectMsg("+111", <<"hi">>), DirectMsg("+111", <<"yo">>) }

FullResults ==
  { Result(FALSE, <<>>, <<>>),
    Result(FALSE, <<>>, <<Payload(<<"ok">>, <<>>)>>),
    Result(FALSE, <<Payload(<<"working">>, <<>>)>>, <<>>),
    Result(FALSE, <<Payload(<<"working">>, <<>>)>>,
           <<Payload(<<"done">>, <<>>)>>) }

FullInit ==
  /\ \E n \in (MAX_RECENT_MESSAGES - 2)..MAX_RECENT_MESSAGES :
       ConnectedInit(EarlierReplies(n))
  /\ chatCfg \in EchoConfigs

FullNext ==
  \/ \E msg \in FullMsgs : handledMessages < MaxFullMessages /\ OnMessage(msg)
  \/ \E result \in FullResults : Turn(result)

SpecFull == FullInit /\ [][FullNext]_vars

(***************************************************************************)
(* Group history under a small configured limit.                           *)
(***************************************************************************)
HistoryConfigs == { c \in ChatConfigs : c.historyLimit # NoLimit }

HistoryMsgs ==
  { GroupMsg(Group1, "+111", "Alice", <<"hello">>, <<>>),
    GroupMsg(Group1, "+222", "Bob", <<"@Clawd", ZeroWidth, "ping">>, <<>>),
    GroupMsg(Group1, "+111", "Alice", <<"status">>, <<>>),
    GroupMsg(Group2, "+222", "Bob", <<"hello">>, <<>>) }

HistoryInit ==
  /\ MsgInit
  /\ chatCfg \in HistoryConfigs

HistoryNext ==
  \/ \E msg \in HistoryMsgs : handledMessages < MaxHistoryMessages /\ OnMessage(msg)
  \/ \E result \in EchoResults : Turn(result)

SpecHistory == HistoryInit /\ [][HistoryNext]_vars

(***************************************************************************)
(* Overlapping turns: a second message reaches the resolver while the      *)
(* first turn is still awaiting its reply.                                 *)
(***************************************************************************)
MaxOverlap == 2
MaxOverlapMessages == 3

OverlapNext ==
  \/ \E msg \in HistoryMsgs :
       handledMessages < MaxOverlapMessages /\ OnMessageWithin(msg, MaxOverlap)
  \/ \E result \in EchoResults : Turn(result)

SpecOverlap == HistoryInit /\ [][OverlapNext]_vars

(***************************************************************************)
(* Reply turns: what processMessage does with the resolver's result.       *)
(***************************************************************************)
ReplyConfigs ==
  { c \in ChatConfigs : c = DefaultChatCfg \/ c.responsePrefix # <<>> }

ReplyMsgs ==
  { GroupMsg(Group1, "+111", "Alice", <<"hello">>, <<>>),
    GroupMsg(Group1, "+222", "Bob", <<"@Clawd", ZeroWidth, "ping">>, <<>>),
    DirectMsg("+111", <<"hi">>) }

ReplyResults ==
  { Result(FALSE, <<>>, <<>>),
    Result(TRUE, <<>>, <<>>),
    Result(TRUE, <<Payload(<<"working">>, <<>>)>>, <<>>),
    Result(FALSE, <<>>, <<Payload(<<"ok">>, <<>>)>>),
    Result(FALSE, <<>>, <<Payload(<<>>, <<>>)>>),
    Result(FALSE, <<>>, <<Payload(<<>>, <<"m1">>)>>),
    Result(FALSE, <<>>, <<Payload(<<SILENT_REPLY_TOKEN>>, <<>>)>>),
    Result(FALSE, <<>>, <<Payload(<<" ", SILENT_REPLY_TOKEN, "\n">>, <<>>),
                          Payload(<<"ok">>, <<>>)>>),
    Result(FALSE, <<Payload(<<SILENT_REPLY_TOKEN>>, <<"m1">>)>>,
           <<Payload(<<SILENT_REPLY_TOKEN>>, <<"m1">>)>>),
    Result(FALSE, <<>>, <<Payload(<<"one">>, <<>>), Payload(<<"two">>, <<>>)>>),
    Result(FALSE, <<Payload(<<"working">>, <<>>)>>,
           <<Payload(<<SILENT_REPLY_TOKEN>>, <<>>)>>),
    Result(FALSE, <<Payload(<<SILENT_REPLY_TOKEN>>, <<>>)>>,
           <<Payload(<<HEARTBEAT_TOKEN>>, <<>>)>>),
    Result(FALSE, <<Payload(<<"working">>, <<>>), Payload(<<"more">>, <<>>)>>,
           <<Payload(<<"done">>, <<>>)>>) }

ReplyInit ==
  /\ MsgInit
  /\ chatCfg \in ReplyConfigs

ReplyNext ==
  \/ \E msg \in ReplyMsgs : handledMessages < MaxReplyMessages /\ OnMessage(msg)
  \/ \E result \in ReplyResults : Turn(result)

SpecReply == ReplyInit /\ [][ReplyNext]_vars

(***************************************************************************)
(* The reply delivery engine: deliverWebReply.  A text is a sequence of    *)
(* characters here.                                                        *)
(***************************************************************************)
Rep(c, n) == [i \in 1..n |-> c]

IsSpace(c) == c \in {" ", "\n"}

\* the text with its whitespace removed
NoWs(text) == SelectSeq(text, LAMBDA c : ~IsSpace(c))

\* auto-reply/chunk.chunkText: chunks of at most limit characters, broken at
\* the last whitespace of the window where there is one
RECURSIVE chunkText(_, _)
chunkText(text, limit) ==
  IF text = <<>> THEN <<>>
  ELSE IF Len(text) <= limit THEN <<text>>
  ELSE LET spaces == { i \in 2..limit : IsSpace(text[i]) }
           breakIdx == IF spaces = {} THEN 0
                       ELSE CHOOSE i \in spaces : \A j \in spaces : j <= i
       IN  IF breakIdx = 0
           THEN <<SubSeq(text, 1, limit)>>
                  \o chunkText(SubSeq(text, limit + 1, Len(text)), limit)
           ELSE <<SubSeq(text, 1, breakIdx - 1)>>
                  \o chunkText(SubSeq(text, breakIdx + 1, Len(text)), limit)

\* the warning line of the fallback text
MediaFailedWarning == "Media failed"

\* media.kind of a loaded item
MediaKinds == {"image", "audio", "video", "document"}

\* how a send attempt ends: it resolves, or it rejects with an error that
\* /closed|reset|timed\s*out|disconnect/i matches, or with another error
SendResults == {"ok", "transient", "fatal"}

DeliverTexts ==
  { <<>>,
    <<"h", "i">>,
    Rep("a", WEB_TEXT_LIMIT) \o <<"b">>,
    Rep("a", 3000) \o <<" ">> \o Rep("b", 3000),
    Rep("a", 3000) \o <<" ">> \o Rep("b", 3000) \o <<"\n">> \o Rep("c", 3000) }

DeliverPayloads ==
  { Payload(text, media) :
      text \in DeliverTexts, media \in {<<>>, <<"m1">>, <<"m1", "m2">>} }

TextSent(text) == [kind |-> "text", text |-> text, mediaUrl |-> "", mediaKind |-> ""]

MediaSent(url, kind, cap) ==
  [kind |-> "media", text |-> cap, mediaUrl |-> url, mediaKind |-> kind]

\* sendWithRetry: maxAttempts = 3
SendMaxAttempts == 3

BackoffMs_Flat(attempt) == 500

\* const backoffMs = 500 * attempt
BackoffMs(attempt) == 500 * attempt

\* whether sendWithRetry goes round again after a rejected attempt
ShouldRetry(result, attempt) == result = "transient" /\ attempt # SendMaxAttempts

\* one round of sendWithRetry for the item at index, and the sleep that
\* follows it (backoffMs 0: none)
Attempt(index, attempt, result) ==
  [index |-> index, attempt |-> attempt, result |-> result,
   backoffMs |-> IF ShouldRetry(result, attempt)
                 THEN BackoffMs(attempt) ELSE 0]

NextChunkIndex_Skip(index) == index + 2

\* the next round of `for (const [index, chunk] of textChunks.entries())`
NextChunkIndex(index) == index + 1

\* const textChunks = chunkText(...); const mediaList = ...;
\* const remainingText = [...textChunks]
DeliverStart(payload) ==
  /\ dpc = "idle"
  /\ replyResult' = payload
  /\ LET chunks == chunkText(payload.text, WEB_TEXT_LIMIT)
     IN  /\ textChunks' = chunks
         /\ IF payload.mediaUrls = <<>> /\ chunks # <<>>
            THEN dpc' = "text" /\ remainingText' = <<>>
            ELSE /\ remainingText' = chunks
                 /\ dpc' = IF payload.mediaUrls # <<>> THEN "load" ELSE "done"
  /\ dIndex' = 1
  /\ dAttempt' = 1
  /\ retryLog' = <<>>
  /\ UNCHANGED <<hb, slot, drain, discord, supVars, msgVars, caption, mediaKind, wire>>

\* one attempt of sendWithRetry(() => msg.reply(chunk), "text")
TextSend(result) ==
  /\ dpc = "text"
  /\ IF result = "ok"
     THEN /\ wire' = Append(wire, TextSent(textChunks[dIndex]))
          /\ dAttempt' = 1
          /\ IF NextChunkIndex(dIndex) > Len(textChunks)
             THEN dpc' = "done" /\ UNCHANGED dIndex
             ELSE dIndex' = NextChunkIndex(dIndex) /\ UNCHANGED dpc
     ELSE IF ShouldRetry(result, dAttempt)
     THEN /\ dAttempt' = dAttempt + 1
          /\ UNCHANGED <<wire, dpc, dIndex>>
     ELSE /\ dpc' = "failed"
          /\ UNCHANGED <<wire, dIndex, dAttempt>>
  /\ retryLog' = Append(retryLog, Attempt(dIndex, dAttempt, result))
  /\ UNCHANGED <<hb, slot, drain, discord, supVars, msgVars, replyResult, textChunks, remainingText,
                 caption, mediaKind>>

\* where the media loop goes after the item at dIndex; rest is the
\* remainingText left at that point
AfterMediaItem(rest) ==
  IF dIndex < Len(replyResult.mediaUrls)
  THEN dpc' = "load" /\ dIndex' = dIndex + 1
  ELSE /\ dpc' = IF rest # <<>> THEN "rest" ELSE "done"
       /\ dIndex' = 1

\* variant: the caption is read from the queue and left in it
MediaLoad_CaptionKept(result) ==
  /\ dpc = "load"
  /\ LET takes == dIndex = 1 /\ remainingText # <<>>
         rest == remainingText
     IN  /\ caption' = IF takes THEN Head(remainingText) ELSE <<>>
         /\ remainingText' = rest
         /\ IF result \in MediaKinds
            THEN /\ mediaKind' = result
                 /\ dpc' = "send"
                 /\ UNCHANGED dIndex
            ELSE /\ UNCHANGED mediaKind
                 /\ IF dIndex = 1 THEN dpc' = "fallback" /\ UNCHANGED dIndex
                    ELSE AfterMediaItem(rest)
  /\ dAttempt' = 1
  /\ UNCHANGED <<hb, slot, drain, discord, supVars, msgVars, replyResult, textChunks, wire, retryLog>>

\* the head of a round of the media loop: the caption is taken for the
\* first item, and loadWebMedia resolves with a kind or rejects
MediaLoad(result) ==
  /\ dpc = "load"
  /\ LET takes == dIndex = 1 /\ remainingText # <<>>
         rest == IF takes THEN Tail(remainingText) ELSE remainingText
     IN  /\ caption' = IF takes THEN Head(remainingText) ELSE <<>>
         /\ remainingText' = rest
         /\ IF result \in MediaKinds
            THEN /\ mediaKind' = result
                 /\ dpc' = "send"
                 /\ UNCHANGED dIndex
            ELSE /\ UNCHANGED mediaKind
                 /\ IF dIndex = 1 THEN dpc' = "fallback" /\ UNCHANGED dIndex
                    ELSE AfterMediaItem(rest)
  /\ dAttempt' = 1
  /\ UNCHANGED <<hb, slot, drain, discord, supVars, msgVars, replyResult, textChunks, wire, retryLog>>

\* one attempt of sendWithRetry(() => msg.sendMedia(...), "media:...")
MediaSend(result) ==
  /\ dpc = "send"
  /\ IF result = "ok"
     THEN /\ wire' = Append(wire, MediaSent(replyResult.mediaUrls[dIndex],
                                            mediaKind, caption))
          /\ dAttempt' = 1
          /\ AfterMediaItem(remainingText)
     ELSE IF ShouldRetry(result, dAttempt)
     THEN /\ dAttempt' = dAttempt + 1
          /\ UNCHANGED <<wire, dpc, dIndex>>
     ELSE /\ dAttempt' = 1
          /\ UNCHANGED wire
          /\ IF dIndex = 1 THEN dpc' = "fallback" /\ UNCHANGED dIndex
             ELSE AfterMediaItem(remainingText)
  /\ retryLog' = Append(retryLog, Attempt(dIndex, dAttempt, result))
  /\ UNCHANGED <<hb, slot, drain, discord, supVars, msgVars, replyResult, textChunks, remainingText,
                 caption, mediaKind>>

\* [remainingText.shift() ?? caption ?? "", warning].filter(Boolean).join("\n")
FallbackText(remaining, cap) ==
  LET first == IF remaining # <<>> THEN Head(remaining) ELSE cap
  IN  IF first # <<>> THEN first \o <<"\n", MediaFailedWarning>>
      ELSE <<MediaFailedWarning>>

\* the catch block of the first media item: await msg.reply(fallbackText)
FallbackSend(ok) ==
  /\ dpc = "fallback"
  /\ LET rest == IF remainingText # <<>> THEN Tail(remainingText) ELSE <<>>
     IN  /\ remainingText' = rest
         /\ IF ok
            THEN /\ wire' = Append(wire, TextSent(FallbackText(remainingText, caption)))
                 /\ AfterMediaItem(rest)
            ELSE /\ dpc' = "failed"
                 /\ UNCHANGED <<wire, dIndex>>
  /\ UNCHANGED <<hb, slot, drain, discord, supVars, msgVars, replyResult, textChunks, caption,
                 mediaKind, dAttempt, retryLog>>

\* for (const chunk of remainingText) await msg.reply(chunk)
RestSend(ok) ==
  /\ dpc = "rest"
  /\ IF ok
     THEN /\ wire' = Append(wire, TextSent(remainingText[dIndex]))
          /\ IF dIndex = Len(remainingText)
             THEN dpc' = "done" /\ UNCHANGED dIndex
             ELSE dIndex' = dIndex + 1 /\ UNCHANGED dpc
     ELSE /\ dpc' = "failed"
          /\ UNCHANGED <<wire, dIndex>>
  /\ UNCHANGED <<hb, slot, drain, discord, supVars, msgVars, replyResult, textChunks, remainingText,
                 caption, mediaKind, dAttempt, retryLog>>

DeliverInit ==
  /\ MsgInit
  /\ chatCfg = DefaultChatCfg

DeliverNext ==
  \/ \E payload \in DeliverPayloads : DeliverStart(payload)
  \/ \E result \in SendResults : TextSend(result)
  \/ \E result \in MediaKinds \cup {"fail"} : MediaLoad(result)
  \/ \E result \in SendResults : MediaSend(result)
  \/ \E ok \in BOOLEAN : FallbackSend(ok)
  \/ \E ok \in BOOLEAN : RestSend(ok)

SpecDeliver == DeliverInit /\ [][DeliverNext]_vars

\* the direct message whose turn the delivery answers
AnsweredMsg == DirectMsg("+111", <<"hello">>)

\* processMessage after `await deliverWebReply(...)` for a final payload:
\* once the call has resolved, the payload's text and the prompt body are
\* added to the echo set; the catch block of a rejected call adds nothing
DeliverReturn ==
  /\ dpc \in {"done", "failed"}
  /\ dpc' = "returned"
  /\ outbound' = Append(outbound, Delivery("final", replyResult, dpc = "done"))
  /\ recentlySent' =
       IF dpc = "done" /\ replyResult.text # <<>>
         THEN EvictOldest(SetAdd(SetAdd(recentlySent, replyResult.text),
                                 buildLine(AnsweredMsg)))
         ELSE recentlySent
  /\ UNCHANGED <<hb, slot, drain, discord, supVars, replyResult, textChunks, remainingText,
                 dIndex, dAttempt, caption, mediaKind, wire, retryLog,
                 chatCfg, groupHistories, turns, lastInbound, outcome,
                 arrivals, shown, settled>>

BookkeepingNext == DeliverNext \/ DeliverReturn

SpecBookkeeping == DeliverInit /\ [][BookkeepingNext]_vars

\* the bodies of the sends of this delivery that succeeded
SentBodies == { wire[i].text : i \in 1..Len(wire) } \ {<<>>}

\* C30: once the handler is past a delivery, every body that was sent
\* successfully (a whole text, a chunk, a caption, a fallback text) is in the
\* echo set, and a delivery that failed has added nothing to it
C30_EverySendRecorded ==
  dpc = "returned"
    => /\ \A body \in SentBodies : Contains(recentlySent, body)
       /\ (~outbound[1].resolved => recentlySent = <<>>)

\* what the handler does record: the whole text of a delivery that resolved
WholeTextRecorded ==
  dpc = "returned" /\ outbound[1].resolved /\ replyResult.text # <<>>
    => Contains(recentlySent, replyResult.text)

(***************************************************************************)
(* Discord sends: sendMessageDiscord to a channel recipient.  A text is a  *)
(* sequence of characters here.                                            *)
(***************************************************************************)
DISCORD_TEXT_LIMIT == 2000

DiscordTexts ==
  { <<>>,
    <<" ">>,
    <<"h", "i">>,
    Rep("a", DISCORD_TEXT_LIMIT),
    Rep("a", DISCORD_TEXT_LIMIT + 1),
    Rep("a", 1500) \o <<" ">> \o Rep("b", 1500),
    Rep("a", DISCORD_TEXT_LIMIT) \o <<" ">>,
    Rep("a", 2 * DISCORD_TEXT_LIMIT + 1) }

DiscordReplyTos == {NoReplyTo, "orig-123"}

DiscordMediaUrls == {NoMediaUrl, "m1"}

\* body of one rest.post(Routes.channelMessages(channelId), ...), and the id
\* of the response
Post(content, messageReference, files, id) ==
  [content |-> content, message_reference |-> messageReference,
   files |-> files, id |-> id]

\* messageId: result.id ? String(result.id) : "unknown"
DiscordSendResult(id) == IF id = NoId THEN "unknown" ELSE ToString(id)

\* the ids a response can carry: a fresh message id, or none
ResponseIds == {Len(discord.posts) + 1, NoId}

ChunkReference_Every(d) == d.replyTo

\* message_reference: isFirst ? messageReference : undefined
ChunkReference(d) == IF d.isFirst THEN d.replyTo ELSE NoReplyTo

\* entry of sendDiscordText(rest, channelId, text, replyTo) in call d
sendDiscordText(d, text, replyTo) ==
  IF Trim(text) = <<>>
  THEN [d EXCEPT !.pc = "failed", !.result = "throws"]
  ELSE IF Len(text) <= DISCORD_TEXT_LIMIT
  THEN [d EXCEPT !.pc = "single", !.text = text, !.replyTo = replyTo]
  ELSE [d EXCEPT !.pc = "chunks", !.text = text, !.replyTo = replyTo,
                 !.chunks = chunkText(text, DISCORD_TEXT_LIMIT),
                 !.index = 1, !.isFirst = TRUE, !.last = NoId]

\* what a finished sendDiscordText hands back to its caller: the media path
\* ignores it and returns the response of the media post
DiscordReturn(d, id) ==
  [d EXCEPT !.pc = "done",
            !.result = DiscordSendResult(IF d.call.mediaUrl # NoMediaUrl
                                         THEN d.res ELSE id)]

\* sendMessageDiscord(to, text, opts) up to its first await of a post or of
\* loadWebMedia
DiscordSend(text, replyTo, mediaUrl) ==
  /\ discord.pc = "idle"
  /\ LET d == [discord EXCEPT !.call = [text |-> text, replyTo |-> replyTo,
                                         mediaUrl |-> mediaUrl]]
     IN  discord' =
           IF mediaUrl # NoMediaUrl
           THEN [d EXCEPT !.pc = "load", !.text = text, !.replyTo = replyTo]
           ELSE sendDiscordText(d, text, replyTo)
  /\ UNCHANGED <<hb, supVars, msgVars, dlvVars, drain, slot>>

\* the post of a text within the limit settles
DiscordPostSingle(ok, id) ==
  /\ discord.pc = "single"
  /\ discord' =
       IF ok
       THEN DiscordReturn(
              [discord EXCEPT !.posts = Append(@, Post(discord.text,
                                                       discord.replyTo, FALSE, id))],
              id)
       ELSE [discord EXCEPT !.pc = "failed", !.result = "throws"]
  /\ UNCHANGED <<hb, supVars, msgVars, dlvVars, drain, slot>>

\* one round of `for (const chunk of chunks)` settles
DiscordPostChunk(ok, id) ==
  /\ discord.pc = "chunks"
  /\ discord' =
       IF discord.index > Len(discord.chunks)
       THEN [discord EXCEPT !.pc = "failed", !.result = "throws"]
       ELSE IF ~ok
       THEN [discord EXCEPT !.pc = "failed", !.result = "throws"]
       ELSE LET posted ==
                  [discord EXCEPT
                     !.posts = Append(@, Post(discord.chunks[discord.index],
                                              ChunkReference(discord), FALSE, id)),
                     !.last = id, !.isFirst = FALSE,
                     !.index = discord.index + 1]
            IN  IF posted.index > Len(posted.chunks)
                THEN DiscordReturn(posted, id)
                ELSE posted
  /\ UNCHANGED <<hb, supVars, msgVars, dlvVars, drain, slot>>

\* loadWebMedia(mediaUrl) settles
DiscordMediaLoad(ok) ==
  /\ discord.pc = "load"
  /\ discord' = IF ok THEN [discord EXCEPT !.pc = "media"]
                ELSE [discord EXCEPT !.pc = "failed", !.result = "throws"]
  /\ UNCHANGED <<hb, supVars, msgVars, dlvVars, drain, slot>>

\* the post of the media with its caption settles; the text beyond the
\* limit goes to sendDiscordText without replyTo
DiscordPostMedia(ok, id) ==
  /\ discord.pc = "media"
  /\ LET text == discord.text
         long == Len(text) > DISCORD_TEXT_LIMIT
         cap == IF long THEN SubSeq(text, 1, DISCORD_TEXT_LIMIT) ELSE text
         remaining ==
           IF long THEN Trim(SubSeq(text, DISCORD_TEXT_LIMIT + 1, Len(text)))
           ELSE <<>>
         posted == [discord EXCEPT
                      !.posts = Append(@, Post(cap, discord.replyTo, TRUE, id)),
                      !.res = id]
     IN  discord' =
           IF ~ok THEN [discord EXCEPT !.pc = "failed", !.result = "throws"]
           ELSE IF remaining # <<>>
           THEN sendDiscordText(posted, remaining, NoReplyTo)
           ELSE DiscordReturn(posted, id)
  /\ UNCHANGED <<hb, supVars, msgVars, dlvVars, drain, slot>>

DiscordInit == DeliverInit

DiscordNext ==
  \/ \E text \in DiscordTexts, replyTo \in DiscordReplyTos,
        mediaUrl \in DiscordMediaUrls : DiscordSend(text, replyTo, mediaUrl)
  \/ \E ok \in BOOLEAN, id \in ResponseIds : DiscordPostSingle(ok, id)
  \/ \E ok \in BOOLEAN, id \in ResponseIds : DiscordPostChunk(ok, id)
  \/ \E ok \in BOOLEAN : DiscordMediaLoad(ok)
  \/ \E ok \in BOOLEAN, id \in ResponseIds : DiscordPostMedia(ok, id)

SpecDiscord == DiscordInit /\ [][DiscordNext]_vars

(***************************************************************************)
(* Background tasks of one connection and closeListener                    *)
(* (auto-reply.ts 919, 1017-1049, 1342-1355).  The tasks of the connection *)
(* are numbered in the order they start; drain.tasks holds the state of    *)
(* each updateLastRoute call, drain.backgroundTasks the tracked set.       *)
(***************************************************************************)
MaxDrainMessages == 3

\* msg.from.includes("@")
IsJid(x) == x \in {SelfJid, Group1, Group2}

\* the `to` of the last-route update; "" is null
LastRouteTo(msg) ==
  IF msg.senderE164 # "" THEN normalizeE164(msg.senderE164)
  ELSE IF IsJid(msg.from) THEN jidToE164(msg.from)
  ELSE normalizeE164(msg.from)

\* if (msg.chatType !== "group") { ... if (to) { backgroundTasks.add(task) } }
TracksTask(msg) == msg.chatType # "group" /\ LastRouteTo(msg) # ""

DrainMsgs ==
  { [chatType |-> "direct", from |-> "+111", senderE164 |-> "+111"],
    [chatType |-> "direct", from |-> SelfJid, senderE164 |-> ""],
    [chatType |-> "direct", from |-> "unknown", senderE164 |-> ""],
    [chatType |-> "group", from |-> Group1, senderE164 |-> "+111"] }

Pending(d) == { id \in 1..Len(d.tasks) : d.tasks[id] = "pending" }

\* the listener delivers a message while its socket is open; processMessage
\* runs without an await up to backgroundTasks.add(task)
DrainMessage(msg) ==
  /\ drain.pc \in {"open", "draining"}
  /\ drain.socketOpen
  /\ drain.handled < MaxDrainMessages
  /\ drain' =
       IF TracksTask(msg)
         THEN [drain EXCEPT !.handled = @ + 1,
                            !.tasks = Append(@, "pending"),
                            !.backgroundTasks = @ \cup {Len(drain.tasks) + 1}]
         ELSE [drain EXCEPT !.handled = @ + 1]
  /\ UNCHANGED <<hb, supVars, msgVars, dlvVars, discord, slot>>

\* updateLastRoute settles: the .catch logs a rejection, so the tracked
\* promise fulfils either way, and the .finally removes it from the set
TaskSettles(id, ok) ==
  /\ id \in Pending(drain)
  /\ drain' = [drain EXCEPT !.tasks[id] = IF ok THEN "fulfilled" ELSE "rejected",
                            !.backgroundTasks = @ \ {id},
                            !.warnings = IF ok THEN @ ELSE @ + 1]
  /\ UNCHANGED <<hb, supVars, msgVars, dlvVars, discord, slot>>

\* try { await listener.close() } catch { logVerbose }: closeListener
\* resolves whether or not close() rejects
ListenerClose(d, closeOk) ==
  [d EXCEPT !.pc = "closed", !.socketOpen = FALSE,
            !.pendingAtClose = Pending(d), !.closeFailed = ~closeOk]

\* closeListener is called: with an empty set it goes straight to
\* listener.close(), otherwise it awaits Promise.allSettled over the tasks
\* that are in the set at this moment.  socketOpen tells whether the socket
\* is still delivering (abort, SIGINT, watchdog) or has closed by itself.
CloseListenerStart(socketOpen, closeOk) ==
  /\ drain.pc = "open"
  /\ drain' =
       IF drain.backgroundTasks = {}
         THEN ListenerClose(drain, closeOk)
         ELSE [drain EXCEPT !.pc = "draining", !.socketOpen = socketOpen,
                            !.awaited = drain.backgroundTasks]
  /\ UNCHANGED <<hb, supVars, msgVars, dlvVars, discord, slot>>

\* the awaited tasks have all settled: backgroundTasks.clear(), then
\* listener.close()
DrainSettled(closeOk) ==
  /\ drain.pc = "draining"
  /\ drain.awaited \cap Pending(drain) = {}
  /\ drain' = ListenerClose([drain EXCEPT !.backgroundTasks = {}], closeOk)
  /\ UNCHANGED <<hb, supVars, msgVars, dlvVars, discord, slot>>

DrainInit == DeliverInit

DrainNext ==
  \/ \E msg \in DrainMsgs : DrainMessage(msg)
  \/ \E id \in 1..MaxDrainMessages, ok \in BOOLEAN : TaskSettles(id, ok)
  \/ \E socketOpen \in BOOLEAN, closeOk \in BOOLEAN :
       CloseListenerStart(socketOpen, closeOk)
  \/ \E closeOk \in BOOLEAN : DrainSettled(closeOk)

SpecDrain == DrainInit /\ [][DrainNext]_vars

\* C27: listener.close() is not invoked while a background task of the
\* connection is pending: every task started on the connection has settled
\* when close() is called
C27_DrainBeforeClose ==
  drain.pc = "closed" => drain.pendingAtClose = {}

\* the tasks that were in the set when closeListener was called have settled
\* before listener.close(), and a rejected task does not keep closeListener
\* from closing; a task started later may still be pending
AwaitedSettledBeforeClose ==
  drain.pc = "closed" => drain.awaited \cap drain.pendingAtClose = {}

(***************************************************************************)
(* The active-listener slot under two monitor loops (auto-reply.ts 1242,   *)
(* 1340-1355; web/active-listener.js).  A listener is named by its loop    *)
(* and the number of the loop's connection.                                *)
(***************************************************************************)
MaxSlotConnections == 3

\* active-listener.setActiveWebListener: the slot after the call
setActiveWebListener(listener) == listener

Listener(i) == <<i, slot.loops[i].connection>>

\* the top of the loop: the factory is called and awaited
SlotConnect(i) ==
  /\ slot.loops[i].pc = "top"
  /\ slot.loops[i].connection < MaxSlotConnections
  /\ slot' = [slot EXCEPT !.loops[i].pc = "connecting",
                          !.loops[i].connection = @ + 1]
  /\ UNCHANGED <<hb, supVars, msgVars, dlvVars, discord, drain>>

\* the factory resolved: setActiveWebListener(listener), then the close race
SlotListenerReady(i) ==
  /\ slot.loops[i].pc = "connecting"
  /\ slot' = [slot EXCEPT !.active = setActiveWebListener(Listener(i)),
                          !.loops[i].pc = "race",
                          !.loops[i].open = TRUE]
  /\ UNCHANGED <<hb, supVars, msgVars, dlvVars, discord, drain>>

\* the loop's closeListener: setActiveWebListener(null), listener.close(),
\* and the loop is back at its top
SlotCloseListener(i) ==
  /\ slot.loops[i].pc = "race"
  /\ slot' = [slot EXCEPT !.active = setActiveWebListener(NoListener),
                          !.loops[i].pc = "top",
                          !.loops[i].open = FALSE]
  /\ UNCHANGED <<hb, supVars, msgVars, dlvVars, discord, drain>>

SlotNext ==
  \E i \in SlotLoops :
    \/ SlotConnect(i)
    \/ SlotListenerReady(i)
    \/ SlotCloseListener(i)

SpecSlot == DeliverInit /\ [][SlotNext]_vars

Registers(j) == slot.loops[j].pc = "connecting" /\ slot'.loops[j].pc = "race"

\* C33: a loop that connects takes the slot, and the slot keeps a listener
\* for as long as it is open: while the listener stays open the slot moves
\* only to a listener that registers after it, and the close of another
\* loop's listener leaves it alone
C33_SupersedingRegistration ==
  [][\A i \in SlotLoops :
       /\ Registers(i) => slot'.active = <<i, slot'.loops[i].connection>>
       /\ (slot.active = Listener(i) /\ slot.loops[i].open /\ slot'.loops[i].open)
            => (slot'.active = slot.active \/ \E j \in SlotLoops : Registers(j))]_vars

\* what holds: a registration takes the slot, and the slot is never left
\* holding a listener that has been closed
SlotHoldsNoClosedListener ==
  \A i \in SlotLoops :
    slot.active = Listener(i) => slot.loops[i].open

(***************************************************************************)
(* One heartbeat run against the session store (auto-reply.ts 193-405,     *)
(* 475-499).  The store is read and written whole by every flow; the model *)
(* keeps the one entry under the recipient's session key.                  *)
(***************************************************************************)
MaxHeartbeatClock == 4

HeartbeatSessionIds == {NoSessionId, "hb-session"}

HeartbeatOverrides == {<<>>, <<" ">>, <<"manual">>}

\* what the reply resolver returns to a heartbeat: undefined, one payload, or
\* an array whose last payload with text or media counts
HeartbeatReplies ==
  { <<>>,
    <<Payload(<<HEARTBEAT_TOKEN>>, <<>>)>>,
    <<Payload(<<HEARTBEAT_TOKEN>>, <<"http://cat.png">>)>>,
    <<Payload(<<"alert">>, <<>>)>>,
    <<Payload(<<"alert">>, <<>>), Payload(<<HEARTBEAT_TOKEN>>, <<>>)>>,
    <<Payload(<<HEARTBEAT_TOKEN>>, <<>>), Payload(<<>>, <<>>)>> }

\* the last payload of the result that has text or media; <<>> is undefined
resolveHeartbeatReplyPayload(result) ==
  LET filled == { i \in 1..Len(result) :
                    result[i].text # <<>> \/ result[i].mediaUrls # <<>> }
  IN  IF filled = {} THEN <<>>
      ELSE <<result[CHOOSE i \in filled : \A j \in filled : j <= i]>>

\* getSessionSnapshot: the entry under the recipient's key as the store has it
getSessionSnapshot(store) == store

\* the clock moves on
HeartbeatTick ==
  /\ hb.clock < MaxHeartbeatClock
  /\ hb' = [hb EXCEPT !.clock = @ + 1]
  /\ UNCHANGED <<supVars, msgVars, dlvVars, discord, drain, slot>>

\* another flow (an inbound message's route update, the resolver's own session
\* bookkeeping) writes the entry, also while a heartbeat awaits its resolver
SessionUpdated ==
  /\ hb.pc \in {"idle", "resolver"}
  /\ hb' = [hb EXCEPT
       !.store = [present |-> TRUE,
                  sessionId |-> IF hb.store.present THEN hb.store.sessionId
                                ELSE "session",
                  updatedAt |-> hb.clock],
       !.updatedMeanwhile = hb.pc = "resolver"]
  /\ UNCHANGED <<supVars, msgVars, dlvVars, discord, drain, slot>>

\* runWebHeartbeatOnce up to its `await replyResolver(...)`, or to its return
\* when overrideBody is given
HeartbeatStart(sessionId, overrideBody, dryRun, sendOk) ==
  /\ hb.pc \in {"idle", "returned"}
  /\ LET written == IF sessionId # NoSessionId
                    THEN [present |-> TRUE, sessionId |-> sessionId,
                          updatedAt |-> hb.clock]
                    ELSE hb.store
         call == [hb EXCEPT !.store = written, !.sessionId = sessionId,
                            !.before = hb.store,
                            !.sessionSnapshot = getSessionSnapshot(written),
                            !.updatedMeanwhile = FALSE, !.sent = <<>>,
                            !.event = "none"]
     IN  hb' =
           IF overrideBody # <<>> /\ Trim(overrideBody) = <<>>
           THEN [call EXCEPT !.pc = "returned", !.event = "threw"]
           ELSE IF overrideBody # <<>> /\ dryRun
           THEN [call EXCEPT !.pc = "returned"]
           ELSE IF overrideBody # <<>> /\ sendOk
           THEN [call EXCEPT !.pc = "returned", !.sent = <<overrideBody>>,
                             !.event = "sent"]
           ELSE IF overrideBody # <<>>
           THEN [call EXCEPT !.pc = "returned", !.event = "failed"]
           ELSE [call EXCEPT !.pc = "resolver"]
  /\ UNCHANGED <<supVars, msgVars, dlvVars, discord, drain, slot>>

\* the resolver returns and runWebHeartbeatOnce runs to its end
HeartbeatReply(result, dryRun, sendOk) ==
  /\ hb.pc = "resolver"
  /\ LET replyPayload == resolveHeartbeatReplyPayload(result)
         hasMedia == replyPayload[1].mediaUrls # <<>>
         stripped == stripHeartbeatToken(replyPayload[1].text)
         finalText == IF stripped.text # <<>> THEN stripped.text
                      ELSE replyPayload[1].text
         restored == IF hb.sessionSnapshot.present /\ hb.store.present
                     THEN [hb.store EXCEPT !.updatedAt = hb.sessionSnapshot.updatedAt]
                     ELSE hb.store
     IN  hb' =
           IF replyPayload = <<>>
           THEN [hb EXCEPT !.pc = "returned", !.event = "ok-empty"]
           ELSE IF stripped.shouldSkip /\ ~hasMedia
           THEN [hb EXCEPT !.pc = "returned", !.store = restored,
                           !.event = "ok-token"]
           ELSE IF dryRun
           THEN [hb EXCEPT !.pc = "returned"]
           ELSE IF sendOk
           THEN [hb EXCEPT !.pc = "returned", !.sent = <<finalText>>,
                           !.event = "sent"]
           ELSE [hb EXCEPT !.pc = "returned", !.event = "failed"]
  /\ UNCHANGED <<supVars, msgVars, dlvVars, discord, drain, slot>>

HeartbeatNext ==
  \/ HeartbeatTick
  \/ SessionUpdated
  \/ \E sessionId \in HeartbeatSessionIds, overrideBody \in HeartbeatOverrides,
        dryRun \in BOOLEAN, sendOk \in BOOLEAN :
       HeartbeatStart(sessionId, overrideBody, dryRun, sendOk)
  \/ \E result \in HeartbeatReplies, dryRun \in BOOLEAN, sendOk \in BOOLEAN :
       HeartbeatReply(result, dryRun, sendOk)

SpecHeartbeat == DeliverInit /\ [][HeartbeatNext]_vars

\* a run that got a bare acknowledgment token back, for a session that had an
\* entry when the run began
TokenOnlyRun == hb.pc = "returned" /\ hb.event = "ok-token" /\ hb.before.present

\* C40: after a heartbeat run whose reply is only the acknowledgment token,
\* nothing was sent and the session entry's updatedAt is what it was before
\* the run, with and without the sessionId option and whatever another flow
\* wrote during the await
C40_HeartbeatKeepsUpdatedAt ==
  TokenOnlyRun =>
    /\ hb.sent = <<>>
    /\ hb.store.updatedAt = hb.before.updatedAt

\* what holds: a token-only run sends nothing, and leaves updatedAt at the
\* value of the snapshot, which is the value from before the run only when
\* the sessionId option is left out
TokenOnlyRunRestoresSnapshot ==
  TokenOnlyRun =>
    /\ hb.sent = <<>>
    /\ hb.store.updatedAt = hb.sessionSnapshot.updatedAt
    /\ hb.sessionId = NoSessionId => hb.store.updatedAt = hb.before.updatedAt

\* a token-only run without the sessionId option, during which another flow
\* wrote a later updatedAt
RestoredOverOtherFlow ==
  /\ TokenOnlyRun
  /\ hb.sessionId = NoSessionId
  /\ hb.updatedMeanwhile
  /\ hb.before.updatedAt < hb.clock

(***************************************************************************)
(* Properties of the message handler.                                      *)
(***************************************************************************)
\* a step of onMessage, handling the message lastInbound'
OnMessageStep == handledMessages' = handledMessages + 1

ResolverCalled == Len(turns') = Len(turns) + 1 /\ turns'[Len(turns')].msg = lastInbound'

NoResolverCall == turns' = turns

MentionWords == {"@clawd", "@Clawd"}

HasPatternWord(msg) == \E i \in 1..Len(msg.body) : msg.body[i] \in MentionWords

HasOwnDigits(msg) == \E i \in 1..Len(msg.body) : msg.body[i] \in {"999", "+999"}

\* the words that the command parser looks past: the bot's own number, and
\* what a configured mention pattern matches
LookedPast ==
  {"999", "+999"} \cup (IF chatCfg.mentionPatterns = <<>> THEN {} ELSE MentionWords)

IsActivationCommand(msg) ==
  \E i \in 1..Len(msg.body) :
    /\ msg.body[i] = "/activation"
    /\ \A j \in 1..(i - 1) : msg.body[j] \in LookedPast

IsStatusQuery(msg) == msg.body \in {<<"status">>, <<"/status">>}

Owners ==
  IF chatCfg.allowFrom = <<"111">> THEN {"+111"} ELSE {"+999"}

FromOwner(msg) == msg.senderE164 \in Owners

OwnerCommand(msg) == FromOwner(msg) /\ (IsActivationCommand(msg) \/ IsStatusQuery(msg))

Unmentioned(msg) ==
  /\ msg.chatType = "group"
  /\ msg.mentionedJids = <<>>
  /\ ~HasPatternWord(msg)
  /\ ~HasOwnDigits(msg)
  /\ ~OwnerCommand(msg)

StoredActivation(msg) ==
  IF msg.conversationId = Group1 THEN chatCfg.storeActivation ELSE "unset"

ConfiguredRequire(msg) ==
  IF msg.conversationId = Group1 /\ chatCfg.groupRequire # "unset"
  THEN chatCfg.groupRequire
  ELSE chatCfg.wildcardRequire

\* the activation of the message's conversation: the stored one when valid,
\* otherwise 'always' exactly when requireMention=false is configured
ActivationOf(msg) ==
  IF StoredActivation(msg) \in {"mention", "always"} THEN StoredActivation(msg)
  ELSE IF ConfiguredRequire(msg) = "false" THEN "always" ELSE "mention"

AppendedToHistory(msg) ==
  /\ groupHistories'[msg.conversationId] # <<>>
  /\ groupHistories'[msg.conversationId][Len(groupHistories'[msg.conversationId])]
       = HistoryEntry(msg)
  /\ arrivals'[msg.conversationId] = Append(arrivals[msg.conversationId], HistoryEntry(msg))

\* C4, as stated: with activation 'mention', a group message without a
\* mention of the bot that is not an owner command never reaches the
\* resolver and is appended to the history of its conversation.
C4_StoredOnly ==
  [][(OnMessageStep /\ Unmentioned(lastInbound') /\ ActivationOf(lastInbound') = "mention")
       => (NoResolverCall /\ AppendedToHistory(lastInbound'))]_vars

\* C4, amended: such a message never reaches the resolver; it is appended
\* to the history unless the echo guard suppresses it or it is an
\* activation command of a non-owner, and then the history is left alone.
C4_NoResolverStoredUnlessDropped ==
  [][(OnMessageStep /\ Unmentioned(lastInbound') /\ ActivationOf(lastInbound') = "mention")
       => /\ NoResolverCall
          /\ IF Contains(recentlySent, lastInbound'.body) \/ IsActivationCommand(lastInbound')
             THEN UNCHANGED groupHistories
             ELSE AppendedToHistory(lastInbound')]_vars

C4_Witness ==
  /\ outcome = "stored"
  /\ lastInbound.body = <<"hello">>
  /\ ActivationOf(lastInbound) = "mention"
  /\ turns = <<>>
  /\ Len(groupHistories[Group1]) = 2
  /\ groupHistories[Group1][2] = HistoryEntry(lastInbound)

\* C5, as stated: with activation 'always' the resolver is invoked for
\* every inbound group message.
C5_AlwaysInvokes ==
  [][(OnMessageStep /\ lastInbound'.chatType = "group"
        /\ ActivationOf(lastInbound') = "always")
       => ResolverCalled]_vars

\* C5, amended: with activation 'always' the resolver is invoked for every
\* inbound group message that the echo guard does not suppress (by its
\* body or by its composed body) and that is not an activation command of
\* a non-owner; mention content plays no part.
C5_AlwaysInvokesUnlessEchoOrDropped ==
  [][(OnMessageStep /\ lastInbound'.chatType = "group"
        /\ ActivationOf(lastInbound') = "always")
       => \/ ResolverCalled
          \/ /\ Len(recentlySent') < Len(recentlySent)
             /\ NoResolverCall
          \/ /\ IsActivationCommand(lastInbound')
             /\ ~FromOwner(lastInbound')
             /\ NoResolverCall]_vars

C5_Witness ==
  /\ lastInbound.chatType = "group"
  /\ Unmentioned(lastInbound)
  /\ ActivationOf(lastInbound) = "always"
  /\ chatCfg.storeActivation \in {"unset", "bogus"}
  /\ outcome = "resolver"
  /\ Len(turns) = 1
  /\ turns[1].msg = lastInbound

SelfChat == chatCfg.allowFrom = <<SelfE164>>

OnlyPlatformMention(msg) ==
  /\ msg.chatType = "group"
  /\ msg.mentionedJids = <<SelfJid>>
  /\ ~HasPatternWord(msg)
  /\ ~HasOwnDigits(msg)
  /\ ~OwnerCommand(msg)

PatternConfigured == chatCfg.mentionPatterns # <<>>

\* C6, as stated: in self-chat mode, in a group requiring mention, a
\* message that only carries a platform mention of the owner does not reach
\* the resolver, and a message matching a mention pattern does.
C6_SelfChat ==
  [][(OnMessageStep /\ SelfChat /\ lastInbound'.chatType = "group"
        /\ ActivationOf(lastInbound') = "mention")
       => /\ OnlyPlatformMention(lastInbound') => NoResolverCall
          /\ (PatternConfigured /\ HasPatternWord(lastInbound')) => ResolverCalled]_vars

\* C6, amended: the platform mention alone does not reach the resolver; a
\* message matching a mention pattern reaches it unless the echo guard
\* suppresses it or it is an activation command of a non-owner.
C6_SelfChatUnlessEchoOrDropped ==
  [][(OnMessageStep /\ SelfChat /\ lastInbound'.chatType = "group"
        /\ ActivationOf(lastInbound') = "mention")
       => /\ OnlyPlatformMention(lastInbound') => NoResolverCall
          /\ (PatternConfigured /\ HasPatternWord(lastInbound'))
               => \/ ResolverCalled
                  \/ /\ Len(recentlySent') < Len(recentlySent)
                     /\ NoResolverCall
                  \/ /\ IsActivationCommand(lastInbound')
                     /\ ~FromOwner(lastInbound')
                     /\ NoResolverCall]_vars

C6_Witness ==
  /\ SelfChat
  /\ ActivationOf(lastInbound) = "mention"
  /\ OnlyPlatformMention(lastInbound)
  /\ outcome = "stored"
  /\ turns = <<>>
  /\ Len(groupHistories[Group1]) = 2
  /\ groupHistories[Group1][1].body = <<"@Clawd", ZeroWidth, "ping">>

NoDuplicates(seq) == \A i, j \in 1..Len(seq) : seq[i] = seq[j] => i = j

\* C7, as stated: once x was recorded as sent, the first inbound x is
\* suppressed and removes x from the echo set; the next inbound x, with no
\* send of x in between, is not suppressed and is processed normally.
C7_SecondProcessed ==
  [][OnMessageStep
       => /\ Contains(recentlySent, lastInbound'.body)
               => (NoResolverCall /\ ~Contains(recentlySent', lastInbound'.body))
          /\ (outcome = "echo" /\ lastInbound = lastInbound'
                /\ ~Contains(recentlySent, lastInbound'.body))
               => outcome' \notin {"echo", "echoCombined"}]_vars

\* C7, amended: the first inbound x is suppressed and removes exactly x
\* from the echo set; the next inbound x is not suppressed by the check of
\* the message body, though the check of the composed body may still
\* suppress it, consuming that entry in turn.
C7_EchoOneShot ==
  [][OnMessageStep
       => /\ NoDuplicates(recentlySent')
          /\ Contains(recentlySent, lastInbound'.body)
               => /\ NoResolverCall
                  /\ outcome' = "echo"
                  /\ recentlySent' = Remove(recentlySent, lastInbound'.body)
                  /\ ~Contains(recentlySent', lastInbound'.body)
          /\ ~Contains(recentlySent, lastInbound'.body)
               => /\ outcome' # "echo"
                  /\ outcome' = "echoCombined"
                       => (NoResolverCall /\ Len(recentlySent') = Len(recentlySent) - 1)
                  /\ outcome' # "echoCombined" => recentlySent' = recentlySent]_vars

C7_Witness ==
  /\ handledMessages = 3
  /\ lastInbound.body = <<"ok">>
  /\ outcome = "echoCombined"
  /\ recentlySent = <<>>
  /\ turns = <<>>

LastN(seq, n) == IF Len(seq) > n THEN SubSeq(seq, Len(seq) - n + 1, Len(seq)) ELSE seq

\* C8: the history of a group conversation never holds more than the
\* configured limit (50 by default), and it is the last entries, up to the
\* limit, appended since it was last cleared, in the order they arrived.
C8_HistoryBounded ==
  /\ groupHistoryLimit = (IF chatCfg.historyLimit = NoLimit THEN 50 ELSE chatCfg.historyLimit)
  /\ \A c \in Groups :
       /\ Len(groupHistories[c]) <= groupHistoryLimit
       /\ groupHistories[c] = LastN(arrivals[c], groupHistoryLimit)

C8_Witness ==
  /\ chatCfg.historyLimit = 2
  /\ Len(arrivals[Group1]) = 4
  /\ Len(groupHistories[Group1]) = 2
  /\ groupHistories[Group1] = SubSeq(arrivals[Group1], 3, 4)
  /\ groupHistories[Group1][1] # groupHistories[Group1][2]

\* the messages of the conversation still buffered when the triggering
\* message is handled: the buffer before it, less the oldest entry when the
\* append of the triggering message pushed it out
BufferedBefore(msg) ==
  LET before == groupHistories[msg.conversationId]
      limit == IF chatCfg.historyLimit = NoLimit THEN 50 ELSE chatCfg.historyLimit
  IN  IF OwnerCommand(msg) THEN before ELSE LastN(before, limit - 1)

\* the prompt body with the given entries as its context block
BodyWithContext(msg, entries) ==
  CombinedBody(msg, Append(entries, HistoryEntry(msg)))

\* C23: the context block of a group turn that reaches the resolver holds
\* exactly the messages buffered before the triggering message, in arrival
\* order, also when the triggering message is an owner command that is not
\* appended
C23_CatchUpContext ==
  [][(OnMessageStep /\ ResolverCalled /\ lastInbound'.chatType = "group")
       => turns'[Len(turns')].combinedBody =
            BodyWithContext(lastInbound', BufferedBefore(lastInbound'))]_vars

TurnEnds == Len(turns') < Len(turns)

\* C24: a turn triggered by an owner's activation command or status query
\* leaves the group history buffer as it was: the command is not appended
\* when it arrives, and the buffered messages are still there when the turn
\* has completed
C24_OwnerCommandKeepsHistory ==
  /\ [][(OnMessageStep /\ lastInbound'.chatType = "group"
           /\ OwnerCommand(lastInbound') /\ outcome' = "resolver")
          => groupHistories' = groupHistories]_vars
  /\ [][(TurnEnds /\ settled'.msg.chatType = "group" /\ OwnerCommand(settled'.msg))
          => groupHistories' = groupHistories]_vars

ArrivalOrderKept ==
  \A c \in Groups : groupHistories[c] = LastN(arrivals[c], groupHistoryLimit)

\* C32: with turns of one conversation in flight at the same time, the
\* buffer holds the messages in the order they arrived, and the context of
\* every resolver call holds all the messages that arrived before its
\* trigger and are still buffered
C32_AppendOrder ==
  /\ []ArrivalOrderKept
  /\ [][(OnMessageStep /\ ResolverCalled /\ lastInbound'.chatType = "group")
          => \A k \in 1..Len(BufferedBefore(lastInbound')) :
               \E n \in 0..Len(BufferedBefore(lastInbound')) :
                 turns'[Len(turns')].combinedBody =
                   BodyWithContext(lastInbound',
                                   LastN(BufferedBefore(lastInbound'), n))
                 /\ k > Len(BufferedBefore(lastInbound')) - n]_vars

\* what holds: the order, and the full context for a trigger that was
\* itself appended
AppendOrderOfAppended ==
  /\ []ArrivalOrderKept
  /\ [][(OnMessageStep /\ ResolverCalled /\ lastInbound'.chatType = "group"
           /\ ~OwnerCommand(lastInbound'))
          => turns'[Len(turns')].combinedBody =
               BodyWithContext(lastInbound', BufferedBefore(lastInbound'))]_vars

\* two turns of one conversation are in flight
OverlapReached ==
  /\ Len(turns) = 2
  /\ turns[1].msg.conversationId = turns[2].msg.conversationId
  /\ turns[1].combinedBody # turns[2].combinedBody

\* the end of a turn empties the buffer of conversation c
Clears(c) == TurnEnds /\ groupHistories[c] # <<>> /\ groupHistories'[c] = <<>>

\* C34: a clear at the end of a turn discards only entries that some
\* resolver call has had in its context or as its current message
C34_NoContextLost ==
  [][\A c \in Groups :
       Clears(c) => \A k \in 1..Len(shown[c]) : shown[c][k]]_vars

\* the marks follow the buffer entry by entry
MarksAligned == \A c \in Groups : Len(shown[c]) = Len(groupHistories[c])

NonOwnerActivation(msg) ==
  msg.chatType = "group" /\ IsActivationCommand(msg) /\ ~FromOwner(msg)

\* C25: a group message that is an activation command of a sender outside
\* the owner list never reaches the resolver, starts no reply and is not
\* appended to the history, whatever the activation and with or without a
\* mention of the bot
C25_NonOwnerActivationDropped ==
  [][(OnMessageStep /\ NonOwnerActivation(lastInbound'))
       => /\ NoResolverCall
          /\ outbound' = <<>>
          /\ groupHistories' = groupHistories
          /\ arrivals' = arrivals]_vars

C25_Witness ==
  /\ outcome = "dropped"
  /\ NonOwnerActivation(lastInbound)
  /\ HasPatternWord(lastInbound)
  /\ ActivationOf(lastInbound) = "always"
  /\ turns = <<>>
  /\ Len(groupHistories[Group1]) = 1

\* a group message without any mention of the bot, in a conversation whose
\* activation is 'mention'
Ungated(msg) ==
  /\ msg.chatType = "group"
  /\ msg.mentionedJids = <<>>
  /\ ~HasPatternWord(msg)
  /\ ~HasOwnDigits(msg)
  /\ ActivationOf(msg) = "mention"

NonOwnerStatusGated ==
  [][(OnMessageStep /\ Ungated(lastInbound') /\ IsStatusQuery(lastInbound')
        /\ ~FromOwner(lastInbound')) => NoResolverCall]_vars

\* C26 as stated: with activation 'mention', an owner's activation command
\* or status query reaches the resolver without a mention of the bot; a
\* status query of a non-owner does not
C26_OwnerBypassAlways ==
  /\ [][(OnMessageStep /\ Ungated(lastInbound') /\ OwnerCommand(lastInbound'))
          => ResolverCalled]_vars
  /\ NonOwnerStatusGated

\* the prompt body of the turn is in the echo set
EchoOfPrompt(msg) ==
  Contains(recentlySent, CombinedBody(msg, groupHistories[msg.conversationId]))

\* C26, amended: the owner's command reaches the resolver unless the echo
\* guard takes it: its body, or the prompt body built for it, equals a text
\* in the echo set; then it is dropped without a resolver call
C26_OwnerBypass ==
  /\ [][(OnMessageStep /\ Ungated(lastInbound') /\ OwnerCommand(lastInbound'))
          => IF Contains(recentlySent, lastInbound'.body) \/ EchoOfPrompt(lastInbound')
             THEN NoResolverCall
             ELSE ResolverCalled]_vars
  /\ NonOwnerStatusGated

C26_Witness ==
  /\ outcome = "resolver"
  /\ Ungated(lastInbound)
  /\ OwnerCommand(lastInbound)
  /\ IsStatusQuery(lastInbound)
  /\ Len(turns) = 1
  /\ Len(groupHistories[Group1]) = 1

(***************************************************************************)
(* Properties of the reply delivery engine.                                *)
(***************************************************************************)
TextSends == SelectSeq(wire, LAMBDA s : s.kind = "text")

MediaSends == SelectSeq(wire, LAMBDA s : s.kind = "media")

\* C3, as stated: a reply with a text and one media item whose load or
\* send fails is delivered as exactly one text-only send that holds the
\* caption text and the failure warning, and no media send succeeds.
C3_MediaFallback ==
  (/\ dpc = "done"
   /\ replyResult.text # <<>>
   /\ Len(replyResult.mediaUrls) = 1
   /\ MediaSends = <<>>)
    => /\ Len(wire) = 1
       /\ wire[1].kind = "text"
       /\ StartsWith(wire[1].text, textChunks[1])
       /\ Contains(wire[1].text, MediaFailedWarning)

SentTexts == [i \in 1..Len(wire) |-> wire[i].text]

\* C9: a text-only reply longer than the chunk limit goes out as several
\* text sends in chunk order, none twice and none skipped; once all are
\* sent, their concatenation is the original text up to the whitespace
\* dropped at the split points.
C9_ChunkedDelivery ==
  (/\ dpc \in {"text", "done", "failed"}
   /\ replyResult.mediaUrls = <<>>
   /\ Len(replyResult.text) > WEB_TEXT_LIMIT)
    => /\ TextSends = wire
       /\ Len(wire) <= Len(textChunks)
       /\ SentTexts = SubSeq(textChunks, 1, Len(wire))
       /\ \A i \in 1..Len(wire) :
            Len(wire[i].text) \in 1..WEB_TEXT_LIMIT
       /\ dpc = "text" => Len(wire) = dIndex - 1
       /\ dpc = "done"
            => /\ Len(wire) >= 2
               /\ NoWs(Flatten(SentTexts)) = NoWs(replyResult.text)
               /\ Len(replyResult.text) - Len(Flatten(SentTexts)) \in 0..(Len(wire) - 1)

C9_Witness ==
  /\ dpc = "done"
  /\ replyResult.mediaUrls = <<>>
  /\ Len(replyResult.text) = 9002
  /\ Len(wire) = 3
  /\ wire[3].text = Rep("c", 3000)

TextOnlyDelivery == dpc # "idle" /\ replyResult.mediaUrls = <<>>

Propagates(a) == a.result = "fatal" \/ (a.result = "transient" /\ a.attempt = 3)

\* C16: a text-only delivery makes at most three attempts per chunk; an
\* attempt is repeated only after an error that looks transient and after a
\* wait of attempt x 500 ms; any other error, and the third transient one,
\* ends the delivery as failed with no further attempt
C16_RetryPolicy ==
  TextOnlyDelivery =>
    \A k \in 1..Len(retryLog) :
      LET a == retryLog[k]
      IN  /\ a.attempt \in 1..3
          /\ a.attempt > 1 =>
               /\ k > 1
               /\ retryLog[k - 1].index = a.index
               /\ retryLog[k - 1].attempt = a.attempt - 1
               /\ retryLog[k - 1].result = "transient"
               /\ retryLog[k - 1].backoffMs = (a.attempt - 1) * 500
          /\ (a.attempt = 1 /\ k > 1) =>
               /\ retryLog[k - 1].result = "ok"
               /\ retryLog[k - 1].index < a.index
          /\ Propagates(a) =>
               k = Len(retryLog) /\ dpc = "failed" /\ a.backoffMs = 0
          /\ a.result = "ok" => a.backoffMs = 0
          /\ (a.result = "transient" /\ a.attempt < 3) =>
               (k = Len(retryLog) => dpc = "text" /\ dAttempt = a.attempt + 1)

C16_Witness ==
  /\ TextOnlyDelivery
  /\ dpc = "failed"
  /\ Len(textChunks) = 2
  /\ Len(retryLog) = 5
  /\ [k \in 1..5 |-> retryLog[k].result] =
       <<"transient", "ok", "transient", "transient", "transient">>
  /\ [k \in 1..5 |-> retryLog[k].backoffMs] = <<500, 0, 500, 1000, 0>>

\* a finished delivery with media in which every media item went out
AllMediaSent ==
  /\ dpc = "done"
  /\ replyResult.mediaUrls # <<>>
  /\ Len(MediaSends) = Len(replyResult.mediaUrls)

\* C31: when every media item of a reply is sent, the items go out in list
\* order before any text, the first one carries the first text chunk as its
\* caption and the others carry none, and the chunks after the first follow
\* as text sends in order: each chunk goes out exactly once
C31_CaptionOnce ==
  AllMediaSent =>
    LET M == Len(replyResult.mediaUrls)
        N == Len(textChunks)
    IN  /\ Len(wire) = M + (IF N = 0 THEN 0 ELSE N - 1)
        /\ \A i \in 1..M :
             wire[i] = MediaSent(replyResult.mediaUrls[i], wire[i].mediaKind,
                                 IF i = 1 /\ N > 0 THEN textChunks[1] ELSE <<>>)
        /\ \A j \in 2..N : wire[M + j - 1] = TextSent(textChunks[j])

C31_Witness ==
  /\ AllMediaSent
  /\ Len(replyResult.mediaUrls) = 2
  /\ Len(textChunks) = 3
  /\ Len(wire) = 4
  /\ wire[1].text = textChunks[1]
  /\ wire[2].text = <<>>

\* a finished delivery whose first media item failed: its first send is the
\* fallback text
FirstMediaFailed ==
  /\ dpc = "done"
  /\ replyResult.mediaUrls # <<>>
  /\ wire # <<>>
  /\ wire[1].kind = "text"

\* C35: after a failure of the first media item every text chunk is still
\* delivered once and in order: the first chunk in the fallback text, before
\* the failure note, and the others as the text sends that follow
C35_NoTextLost ==
  (FirstMediaFailed /\ textChunks # <<>>)
    => /\ wire[1].text = textChunks[1] \o <<"\n", MediaFailedWarning>>
       /\ Tail(TextSends) =
            [j \in 1..(Len(textChunks) - 1) |-> TextSent(textChunks[j + 1])]

\* what holds: a text of one chunk is kept
SingleChunkKept ==
  (FirstMediaFailed /\ Len(textChunks) = 1)
    => /\ wire[1].text = textChunks[1] \o <<"\n", MediaFailedWarning>>
       /\ Len(TextSends) = 1

(***************************************************************************)
(* Properties of Discord sends.                                            *)
(***************************************************************************)
\* a finished send of a text beyond the limit, in reply to a message
LongReplyDone ==
  /\ discord.pc = "done"
  /\ discord.call.replyTo # NoReplyTo
  /\ Len(discord.call.text) > DISCORD_TEXT_LIMIT

\* the posts carry the text in order, the first one alone refers to the
\* message replied to
PostsInOrder ==
  LET posts == discord.posts
  IN  /\ Len(posts) >= 2
      /\ NoWs(Flatten([k \in 1..Len(posts) |-> posts[k].content])) =
           NoWs(discord.call.text)
      /\ posts[1].message_reference = discord.call.replyTo
      /\ \A k \in 2..Len(posts) : posts[k].message_reference = NoReplyTo

ReturnsLastPost ==
  LET id == discord.posts[Len(discord.posts)].id
  IN  discord.result = IF id = NoId THEN "unknown" ELSE ToString(id)

\* C21 as stated: a reply with a text beyond 2000 characters is posted in
\* order, only the first post carries the message_reference, and the
\* messageId returned is that of the last post
C21_ChunkedReplyAnySend == LongReplyDone => PostsInOrder /\ ReturnsLastPost

\* C21, amended: the same for a send without media
C21_ChunkedReply ==
  (LongReplyDone /\ discord.call.mediaUrl = NoMediaUrl) =>
    PostsInOrder /\ ReturnsLastPost

C21_Witness ==
  /\ LongReplyDone
  /\ discord.call.mediaUrl = NoMediaUrl
  /\ Len(discord.posts) = 3
  /\ discord.posts[3].id = 3
  /\ discord.result = "3"

(***************************************************************************)
(* Properties of the connection supervisor.                                *)
(***************************************************************************)
\* every connection so far closed on its own with zero uptime, and nothing
\* else (abort, SIGINT, logout) ended the loop
ImmediateCloses ==
  /\ cfg.keepAlive
  /\ cfg.reconnectPolicy.maxAttempts >= 1
  /\ now = 0
  /\ ~aborted
  /\ ~sigintStop
  /\ ~status.lastDisconnect.loggedOut

\* C1 (as stated): when onClose resolves immediately N times and
\* maxAttempts = N, the supervisor has invoked the listener factory exactly
\* N+1 times when it stops.
C1_FactoryCallsNPlusOne ==
  (ImmediateCloses /\ pc = "done")
     => factoryCalls = cfg.reconnectPolicy.maxAttempts + 1

\* C1 (amended): when onClose resolves immediately each time and
\* maxAttempts = N >= 1, the supervisor never invokes the listener factory
\* more than N times, and it has invoked it exactly N times when it stops.
C1_FactoryCallsN ==
  ImmediateCloses
     => /\ factoryCalls <= cfg.reconnectPolicy.maxAttempts
        /\ pc = "done" => factoryCalls = cfg.reconnectPolicy.maxAttempts

C1_Witness ==
  /\ ImmediateCloses
  /\ pc = "done"
  /\ cfg.reconnectPolicy.maxAttempts = 2
  /\ factoryCalls = 2
  /\ closeCalls = <<1, 1>>

MaxAttemptsHit ==
  /\ cfg.reconnectPolicy.maxAttempts > 0
  /\ reconnectAttempts >= cfg.reconnectPolicy.maxAttempts

\* C11: once the attempt counter has reached a positive maxAttempts the
\* current listener is closed, the max-attempts error is reported, the
\* factory is not invoked again and the monitor runs to its normal end; with
\* maxAttempts = 0 the counter never stops the monitor.
C11_MaxAttemptsStops ==
  /\ [](MaxAttemptsHit
         => /\ pc \in {"closing", "done"}
            /\ activeListener = 0
            /\ closeCalls[factoryCalls] >= 1
            /\ "maxAttempts" \in runtimeErrors)
  /\ [][MaxAttemptsHit => factoryCalls' = factoryCalls]_vars
  /\ (MaxAttemptsHit ~> (pc = "done" /\ ~status.running))
  /\ [](cfg.reconnectPolicy.maxAttempts = 0
         => /\ "maxAttempts" \notin runtimeErrors
            /\ pc = "done"
                 => (aborted \/ sigintStop \/ status.lastDisconnect.loggedOut))

C11_Witness ==
  /\ MaxAttemptsHit
  /\ cfg.reconnectPolicy.maxAttempts = 2
  /\ pc = "done"
  /\ factoryCalls = 2
  /\ runtimeErrors = {"retry", "maxAttempts"}

\* C12: once onClose has resolved with isLoggedOut the supervisor closes
\* the listener and stops: it never sleeps for a backoff and never invokes
\* the factory again, whatever the attempt counter and maxAttempts are.
C12_LogoutTerminal ==
  /\ [](raceResult.isLoggedOut
         => /\ pc \in {"race", "closing", "done"}
            /\ afterClose \in {"none", "break"}
            /\ pc # "race"
                 => (closeCalls[factoryCalls] >= 1 /\ activeListener = 0))
  /\ [][raceResult.isLoggedOut
          => /\ factoryCalls' = factoryCalls
             /\ pc' # "sleeping"
             /\ delay' = delay
             /\ pc = "race" /\ pc' # "race" => pc' = "closing"
             /\ pc = "closing" /\ pc' # "closing" => pc' = "done"]_vars

C12_Witness ==
  /\ raceResult.isLoggedOut
  /\ pc = "done"
  /\ cfg.reconnectPolicy.maxAttempts = 2
  /\ reconnectAttempts = 1
  /\ factoryCalls = 2
  /\ runtimeErrors = {"retry", "loggedOut"}

\* C13: once the abort signal has fired the factory is invoked no more, and
\* the supervisor stops, with every listener it created closed, without
\* onClose resolving and without the backoff sleep running to its end.
C13_Cancellation ==
  /\ [][aborted => factoryCalls' = factoryCalls]_vars
  /\ []((aborted /\ pc \in {"done", "returned"})
         => /\ activeListener = 0
            /\ \A i \in 1..factoryCalls : closeCalls[i] >= 1)
  /\ (aborted ~> pc \in {"done", "returned"})

C13_Witness ==
  /\ aborted
  /\ pc = "done"
  /\ raceResult = AbortedReason
  /\ ~onCloseSettled
  /\ factoryCalls = 2
  /\ closeCalls = <<1, 1>>
  /\ ~status.running

\* the loop was left by a break: cancellation (abort signal or SIGINT),
\* logout, or exhausted attempts
Stopped == pc = "done"

\* C22: once the supervisor has stopped, the status it delivered last has
\* running = false and connected = false; no status follows it and no
\* listener is created after it
C22_FinalStatus ==
  /\ [](Stopped => ~status.running /\ ~status.connected)
  /\ [][Stopped => status' = status /\ factoryCalls' = factoryCalls /\ Stopped']_vars
  /\ [](Stopped =>
          \/ aborted \/ sigintStop
          \/ raceResult.isLoggedOut
          \/ MaxAttemptsHit)

C22_Witness ==
  /\ Stopped
  /\ aborted /\ raceResult = AbortedReason
  /\ factoryCalls = 1
  /\ status.lastDisconnect = InitStatus.lastDisconnect
  /\ ~status.running /\ ~status.connected

\* the connections whose listener was requested and not closed since
OpenListeners == { n \in 1..factoryCalls : closeCalls[n] = 0 }

\* C28: at most one listener is open at any time and the active-listener
\* slot holds nothing but the current one; the factory is invoked for the
\* next connection only when the previous listener has been closed and the
\* supervisor is past its `await closeListener()`; the slot is empty while
\* the supervisor sleeps before a reconnect
C28_SingleConnection ==
  /\ [](/\ Cardinality(OpenListeners) <= 1
        /\ activeListener \in {0, factoryCalls}
        /\ (pc = "sleeping" => activeListener = 0 /\ OpenListeners = {}))
  /\ [][(factoryCalls' # factoryCalls)
          => /\ factoryCalls' = factoryCalls + 1
             /\ pc = "loopTop"
             /\ activeListener = 0
             /\ \A n \in 1..factoryCalls : closeCalls[n] >= 1]_vars

C28_Witness ==
  /\ factoryCalls = 2
  /\ pc = "race"
  /\ activeListener = 2
  /\ closeCalls[1] >= 1
  /\ OpenListeners = {2}

\* the close race of a connection is over and a reconnect is scheduled
RetryScheduled == pc = "race" /\ pc' = "closing" /\ afterClose' = "sleep"

HealthyStretch == now - startedAt > cfg.heartbeatSeconds * 1000

\* C29: when a reconnect is scheduled after a connection that stayed up
\* longer than one heartbeat interval, the attempt counter restarts, so the
\* retry is attempt 1 and its backoff is computeBackoff(policy, 1); after a
\* shorter connection the counter is one more than before and the backoff is
\* computed from it
C29_HealthyStretchReset ==
  [][RetryScheduled
       => LET attempt == IF HealthyStretch THEN 1 ELSE reconnectAttempts + 1
          IN  /\ reconnectAttempts' = attempt
              /\ status'.reconnectAttempts = attempt
              /\ delay' = [attempt |-> attempt,
                           ms |-> computeBackoff(cfg.reconnectPolicy, attempt)]]_vars

\* the second connection stayed up long enough: its retry is attempt 1 again
C29_Witness ==
  /\ pc = "sleeping"
  /\ factoryCalls = 2
  /\ now - startedAt > cfg.heartbeatSeconds * 1000
  /\ reconnectAttempts = 1
  /\ delay = [attempt |-> 1, ms |-> computeBackoff(cfg.reconnectPolicy, 1)]

\* two short connections in a row: the counter has grown to 2
C29_GrowsWitness ==
  /\ pc = "sleeping"
  /\ factoryCalls = 2
  /\ now - startedAt <= cfg.heartbeatSeconds * 1000
  /\ reconnectAttempts = 2

\* the watchdog has closed the listener of the connection the supervisor is
\* waiting on: closeListener has run, the close race has not been continued
WatchdogClosed == pc = "race" /\ closeCalls[factoryCalls] >= 1

\* C36: once the watchdog has closed a listener the supervisor leaves the
\* connected wait and reports connected = false, with or without
\* signalClose on the listener
C36_WatchdogObserved ==
  WatchdogClosed ~> (pc # "race" /\ ~status.connected)

\* what holds: with signalClose on the listener the close is observed
WatchdogObservedWithSignal ==
  (WatchdogClosed /\ cfg.hasSignalClose) ~> (pc # "race" /\ ~status.connected)

\* C37: once handleSigint has run the factory is not invoked again, whatever
\* the supervisor was doing when the signal came, and the handler is off the
\* process when the monitor has returned
C37_SigintStopsReconnect ==
  /\ [][sigintStop => factoryCalls' = factoryCalls]_vars
  /\ [](pc \in {"done", "returned"} => ~sigintRegistered)

\* what holds: a signal that comes during the connected wait stops the
\* monitor at the end of that connection
SigintInWaitStops ==
  [][(sigintStop /\ pc = "race") => factoryCalls' = factoryCalls]_vars

\* the signal came during close handling or the backoff sleep, and the loop
\* went on to connect again
ReconnectedAfterSigint ==
  sigintStop /\ pc = "connecting" /\ factoryCalls = 2

\* C38: a run with keepAlive = false makes one connection, closes its
\* listener and returns, and when it has returned the last status says
\* running = false and connected = false and the SIGINT handler is removed
C38_OneShot ==
  (~cfg.keepAlive /\ pc \in {"done", "returned"})
    => /\ factoryCalls <= 1
       /\ \A n \in 1..factoryCalls : closeCalls[n] = 1
       /\ ~status.running
       /\ ~status.connected
       /\ ~sigintRegistered

\* what holds of the one-shot run: one connection, closed once, and a return
OneShotReturns ==
  (~cfg.keepAlive /\ pc = "returned")
    => factoryCalls = 1 /\ closeCalls = <<1>> /\ activeListener = 0

\* C39: close() of a listener is called at most once, by whichever path its
\* connection ends
C39_CloseAtMostOnce ==
  \A n \in 1..factoryCalls : closeCalls[n] <= 1

\* what holds: a listener is closed twice at most, and twice only when the
\* watchdog closed it before the supervisor did
CloseTwiceAtMost ==
  \A n \in 1..factoryCalls : closeCalls[n] <= 2

(***************************************************************************)
(* Properties of reply turns.                                              *)
(***************************************************************************)
\* a send of the latest turn reached the chat
SomeSendSucceeded(log) == \E k \in 1..Len(log) : log[k].sent

HistoryCleared(c) == groupHistories[c] # <<>> /\ groupHistories'[c] = <<>>

\* C14: the history buffer of a group conversation is cleared only in a
\* turn in which at least one outbound send succeeded
C14_ClearedOnlyAfterSend ==
  [][\A c \in Groups : HistoryCleared(c) => SomeSendSucceeded(outbound')]_vars

\* the text is the token, whitespace aside
OnlyToken(text, token) ==
  SelectSeq(text, LAMBDA w : w \notin {" ", "\n"}) = <<token>>

Calls(kind) == SelectSeq(outbound, LAMBDA d : d.kind = kind)

\* the final payloads of a result that processMessage hands to
\* deliverWebReply: neither silent nor a bare heartbeat token
Deliverable(result) ==
  SelectSeq(result.final,
            LAMBDA p : ~(OnlyToken(p.text, SILENT_REPLY_TOKEN) /\ p.mediaUrls = <<>>)
                       /\ ~(p.text = <<HEARTBEAT_TOKEN>> /\ p.mediaUrls = <<>>))

TurnReturned == settled.how # "none" /\ ~settled.result.throws

\* C15: a failed delivery of one final payload is contained: every
\* deliverable payload of the batch is handed to delivery, in order, whatever
\* happened to the ones before it, and the handler resolves
C15_BatchIsolation ==
  TurnReturned =>
    /\ settled.how = "resolved"
    /\ Len(Calls("final")) = Len(Deliverable(settled.result))
    /\ \A k \in 1..Len(Calls("final")) :
         Calls("final")[k].payload =
           PreparePayload(Deliverable(settled.result)[k]).payload

C15_Witness ==
  /\ TurnReturned
  /\ Len(outbound) = 2
  /\ outbound[1].kind = "final" /\ ~outbound[1].resolved
  /\ outbound[2].kind = "final" /\ outbound[2].sent
  /\ outbound[2].payload.text = <<"[bot]", "two">>

\* C17: the echo set never holds more than MAX_RECENT_MESSAGES texts,
\* whatever tool and final deliveries succeed
C17_EchoBounded == Len(recentlySent) <= MAX_RECENT_MESSAGES

\* the text handed to delivery is the silent token, behind the response
\* prefix or not
TokenText(text) ==
  \/ OnlyToken(text, SILENT_REPLY_TOKEN)
  \/ /\ StartsWith(text, chatCfg.responsePrefix)
     /\ OnlyToken(SubSeq(text, Len(chatCfg.responsePrefix) + 1, Len(text)),
                  SILENT_REPLY_TOKEN)

\* C18 as stated: no delivery is ever started for a payload whose trimmed
\* text is the silent token, tool result or final
C18_SilentNeverDelivered ==
  \A k \in 1..Len(outbound) : ~TokenText(outbound[k].payload.text)

SilentPayloads(payloads) ==
  { k \in 1..Len(payloads) :
      OnlyToken(payloads[k].text, SILENT_REPLY_TOKEN)
      /\ payloads[k].mediaUrls = <<>> }

\* C18, amended: no delivery is started for a payload without media whose
\* trimmed text is the silent token; a turn whose payloads are all of that
\* kind starts no delivery at all
C18_SilentWithoutMediaSuppressed ==
  /\ \A k \in 1..Len(outbound) :
       TokenText(outbound[k].payload.text) =>
         outbound[k].payload.mediaUrls # <<>>
  /\ settled.how = "resolved" =>
       LET r == settled.result
       IN  (/\ SilentPayloads(r.tools) = 1..Len(r.tools)
            /\ SilentPayloads(r.final) = 1..Len(r.final)) => outbound = <<>>

C18_Witness ==
  /\ settled.how = "resolved"
  /\ Len(settled.result.final) = 2
  /\ SilentPayloads(settled.result.final) = {1}
  /\ Len(outbound) = 1
  /\ outbound[1].sent
  /\ outbound[1].payload.text = <<"[bot]", "ok">>

\* the streamed payloads that sendToolResult hands to deliverWebReply
DeliverableTools(result) ==
  SelectSeq(result.tools,
            LAMBDA p : /\ ~(p.text = <<>> /\ p.mediaUrls = <<>>)
                       /\ ~(OnlyToken(p.text, SILENT_REPLY_TOKEN) /\ p.mediaUrls = <<>>)
                       /\ ~(p.text = <<HEARTBEAT_TOKEN>> /\ p.mediaUrls = <<>>))

\* C19: the streamed tool results are delivered first, one after the other
\* in the order they were emitted and whether or not an earlier one failed;
\* the final payloads follow after the last of them
C19_ToolsThenFinals ==
  settled.how # "none" =>
    LET tools == DeliverableTools(settled.result)
        n == Len(tools)
    IN  /\ Len(outbound) >= n
        /\ \A k \in 1..n :
             /\ outbound[k].kind = "tool"
             /\ outbound[k].payload = PreparePayload(tools[k]).payload
        /\ \A k \in (n + 1)..Len(outbound) : outbound[k].kind = "final"
        /\ settled.how = "resolved" =>
             Len(outbound) = n + Len(Deliverable(settled.result))

C19_Witness ==
  /\ settled.how = "resolved"
  /\ Len(outbound) = 3
  /\ outbound[1].kind = "tool" /\ ~outbound[1].resolved
  /\ outbound[1].payload.text = <<"working">>
  /\ outbound[2].kind = "tool" /\ outbound[2].sent
  /\ outbound[2].payload.text = <<"more">>
  /\ outbound[3].kind = "final" /\ outbound[3].sent

\* a processMessage call ends in this step, with a resolver that threw
TurnThrows == Len(turns') < Len(turns) /\ settled'.result.throws

ResolverCallStarts == Len(turns') > Len(turns)

\* C20 as stated: when the resolver throws, the handler rejects, the
\* resolver is not called again for the message, nothing is sent for the
\* turn, and the group histories are as they were
C20_ResolverErrorNothingSent ==
  [][TurnThrows =>
       /\ settled'.how = "rejected"
       /\ Len(turns') = Len(turns) - 1
       /\ ~SomeSendSucceeded(outbound')
       /\ groupHistories' = groupHistories]_vars

\* C20, amended: when the resolver throws, the handler rejects, the call is
\* over and a resolver call starts only with another inbound message, no
\* final payload is delivered (tool results streamed before the throw are),
\* and the group histories are as they were
C20_ResolverError ==
  /\ [][TurnThrows =>
          /\ settled'.how = "rejected"
          /\ Len(turns') = Len(turns) - 1
          /\ \A k \in 1..Len(outbound') : outbound'[k].kind = "tool"
          /\ groupHistories' = groupHistories]_vars
  /\ [][ResolverCallStarts => handledMessages' = handledMessages + 1]_vars

C20_Witness ==
  /\ settled.how = "rejected"
  /\ settled.msg.conversationId = Group1
  /\ Len(outbound) = 1
  /\ outbound[1].kind = "tool" /\ outbound[1].sent
  /\ groupHistories[Group1] = settled.historyBefore
  /\ Len(groupHistories[Group1]) = 2


\* time since the last inbound message of the connection, or since the
\* connection started when it has received none
IdleMs == now - (IF lastMessageAt = NoTime THEN startedAt ELSE lastMessageAt)

\* C2: with keepAlive, a connection that has received no inbound message for
\* longer than the hard timeout does not stay in the connected wait: the
\* watchdog has closed it and the close race has resolved.
C2_WatchdogForcesReconnect ==
  ~(/\ cfg.keepAlive
    /\ pc = "race"
    /\ raceResult.kind = "none"
    /\ IdleMs > MESSAGE_TIMEOUT_MS)

\* C10: whenever the supervisor has computed a backoff delay, it did so for
\* an attempt >= 1 and the delay is min(maxMs, initialMs * factor^(attempt-1));
\* for every policy the delay is non-decreasing in the attempt and never
\* exceeds maxMs.
C10_Backoff ==
  /\ (afterClose = "sleep" \/ pc = "sleeping") =>
        /\ delay.attempt >= 1
        /\ delay.attempt = reconnectAttempts
        /\ delay.ms <= cfg.reconnectPolicy.maxMs
        /\ \/ delay.ms = cfg.reconnectPolicy.maxMs
           \/ delay.ms * Pow(cfg.reconnectPolicy.factorDen, delay.attempt - 1)
                 <= cfg.reconnectPolicy.initialMs
                      * Pow(cfg.reconnectPolicy.factorNum, delay.attempt - 1)
  /\ factoryCalls = 0 =>
        \A p \in Policies : \A a \in 1..MaxBackoffAttempt :
           /\ computeBackoff(p, a) <= computeBackoff(p, a + 1)
           /\ computeBackoff(p, a) <= p.maxMs

C10_Witness ==
  /\ pc = "sleeping"
  /\ delay.attempt = 2
  /\ delay.ms = 1800

====
